---------------------------- MODULE Spec2Model ----------------------------
(***************************************************************************)
(* A model of te, the interactive command-line editor (yusukeshib/te).     *)
(*                                                                         *)
(* A string is a sequence of characters; a character is a one-element      *)
(* TLA+ string ("a", " ", "'", ...), or a name for a character that has no *)
(* TLA+ literal ("NBSP" is U+00A0).                                        *)
(***************************************************************************)
EXTENDS Integers, Sequences, FiniteSets, TLC

(***************************************************************************)
(* Characters                                                              *)
(***************************************************************************)
DQ == "\""
SQ == "'"
BS == "\\"
NL == "\n"
CR == "\r"
TAB == "\t"
SP == " "
NBSP == "NBSP"
\* The backtick (it has no TLA+ string literal).
BT == "BT"
DOLLAR == "$"
HASH == "#"

\* char::is_whitespace: the Unicode White_Space property.
IsWhitespace(c) == c \in {SP, TAB, NL, CR, NBSP}

\* The characters shlex treats as word separators.
IsShlexSpace(c) == c \in {SP, TAB, NL}

(***************************************************************************)
(* Sequence helpers (Vec and String operations of the standard library)    *)
(***************************************************************************)
\* A slip in Vec::remove: the last element is dropped, whatever the index.
VecRemove_dropsLast(v, index) ==
    [k \in 1..(Len(v) - 1) |-> v[k]]

\* Vec::remove(index): the vector without its element at 0-based index.
VecRemove(v, index) ==
    [k \in 1..(Len(v) - 1) |-> IF k <= index THEN v[k] ELSE v[k + 1]]

\* Vec::insert(index, x): x placed at 0-based index, the rest shifted right.
VecInsert(v, index, x) ==
    [k \in 1..(Len(v) + 1) |->
        IF k <= index THEN v[k] ELSE IF k = index + 1 THEN x ELSE v[k - 1]]

\* std::mem::replace on v[index] (0-based): the vector with the slot replaced.
VecReplace(v, index, x) == [v EXCEPT ![index + 1] = x]

\* The number of occurrences of character c in s.
CountChar(s, c) == Cardinality({k \in DOMAIN s : s[k] = c})

RECURSIVE Concat(_)
\* The concatenation of a sequence of strings.
Concat(ss) == IF ss = <<>> THEN <<>> ELSE Head(ss) \o Concat(Tail(ss))

RECURSIVE Join(_, _)
\* [String]::join(sep)
Join(ss, sep) ==
    IF ss = <<>> THEN <<>>
    ELSE IF Len(ss) = 1 THEN Head(ss)
    ELSE Head(ss) \o sep \o Join(Tail(ss), sep)

RECURSIVE TrimStart(_)
TrimStart(s) ==
    IF s # <<>> /\ IsWhitespace(Head(s)) THEN TrimStart(Tail(s)) ELSE s

RECURSIVE TrimEnd(_)
TrimEnd(s) ==
    IF s # <<>> /\ IsWhitespace(s[Len(s)])
    THEN TrimEnd(SubSeq(s, 1, Len(s) - 1)) ELSE s

\* str::trim
Trim(s) == TrimEnd(TrimStart(s))

RECURSIVE SplitContinuations(_, _)
\* str::split("\\\n"): the segments between line-continuation markers
\* (a backslash immediately followed by a newline), scanning left to right;
\* cur is the segment being collected.
SplitContinuations(s, cur) ==
    IF s = <<>> THEN <<cur>>
    ELSE IF Len(s) >= 2 /\ s[1] = BS /\ s[2] = NL
         THEN <<cur>> \o SplitContinuations(SubSeq(s, 3, Len(s)), <<>>)
         ELSE SplitContinuations(Tail(s), Append(cur, Head(s)))

(***************************************************************************)
(* shlex::split (the shlex crate, POSIX-like word splitting)               *)
(***************************************************************************)
RECURSIVE ParseSingle(_, _, _)
\* Shlex::parse_single: i is the next unread position; up to the closing quote.
ParseSingle(s, i, acc) ==
    IF i > Len(s) THEN [ok |-> FALSE, i |-> i, acc |-> acc]
    ELSE IF s[i] = SQ THEN [ok |-> TRUE, i |-> i + 1, acc |-> acc]
    ELSE ParseSingle(s, i + 1, Append(acc, s[i]))

RECURSIVE ParseDouble(_, _, _)
\* Shlex::parse_double: a backslash escapes only dollar, backtick, double quote and backslash, and removes a newline.
ParseDouble(s, i, acc) ==
    IF i > Len(s) THEN [ok |-> FALSE, i |-> i, acc |-> acc]
    ELSE IF s[i] = BS THEN
        IF i + 1 > Len(s) THEN [ok |-> FALSE, i |-> i + 1, acc |-> acc]
        ELSE IF s[i + 1] \in {DOLLAR, BT, DQ, BS}
             THEN ParseDouble(s, i + 2, Append(acc, s[i + 1]))
        ELSE IF s[i + 1] = NL THEN ParseDouble(s, i + 2, acc)
        ELSE ParseDouble(s, i + 2, acc \o <<BS, s[i + 1]>>)
    ELSE IF s[i] = DQ THEN [ok |-> TRUE, i |-> i + 1, acc |-> acc]
    ELSE ParseDouble(s, i + 1, Append(acc, s[i]))

RECURSIVE ParseWord(_, _, _)
\* Shlex::parse_word: i is the position of the current character.
ParseWord(s, i, acc) ==
    IF i > Len(s) THEN [ok |-> TRUE, i |-> i, acc |-> acc]
    ELSE IF s[i] = DQ THEN
        LET r == ParseDouble(s, i + 1, acc)
        IN  IF r.ok THEN ParseWord(s, r.i, r.acc) ELSE r
    ELSE IF s[i] = SQ THEN
        LET r == ParseSingle(s, i + 1, acc)
        IN  IF r.ok THEN ParseWord(s, r.i, r.acc) ELSE r
    ELSE IF s[i] = BS THEN
        IF i + 1 > Len(s) THEN [ok |-> FALSE, i |-> i + 1, acc |-> acc]
        ELSE IF s[i + 1] # NL THEN ParseWord(s, i + 2, Append(acc, s[i + 1]))
        ELSE ParseWord(s, i + 2, acc)
    ELSE IF IsShlexSpace(s[i]) THEN [ok |-> TRUE, i |-> i + 1, acc |-> acc]
    ELSE ParseWord(s, i + 1, Append(acc, s[i]))

RECURSIVE SkipComment(_, _)
\* The comment loop of Shlex::next: reads up to and including the newline.
SkipComment(s, i) ==
    IF i > Len(s) THEN i ELSE IF s[i] = NL THEN i + 1 ELSE SkipComment(s, i + 1)

RECURSIVE ShlexFrom(_, _, _)
\* Iterating Shlex::next from position i: skip separators and comments, then
\* parse one word; words collects the words found so far.
ShlexFrom(s, i, words) ==
    IF i > Len(s) THEN [ok |-> TRUE, words |-> words]
    ELSE IF IsShlexSpace(s[i]) THEN ShlexFrom(s, i + 1, words)
    ELSE IF s[i] = HASH THEN ShlexFrom(s, SkipComment(s, i + 1), words)
    ELSE LET r == ParseWord(s, i, <<>>)
         IN  IF r.ok THEN ShlexFrom(s, r.i, Append(words, r.acc))
             ELSE [ok |-> FALSE, words |-> <<>>]

\* shlex::split: None (ok = FALSE) on unbalanced quoting or a trailing backslash.
ShlexSplit(s) == ShlexFrom(s, 1, <<>>)

(***************************************************************************)
(* command.rs: the quoting serializer and the parser                       *)
(***************************************************************************)
\* A slip in the needs_quoting test: a dollar sign triggers quoting too.
NeedsQuoting_alsoDollar(s) ==
    \E k \in DOMAIN s :
        IsWhitespace(s[k]) \/ s[k] \in {DQ, SQ, BS, NL, CR, TAB, DOLLAR}

\* quote_if_needed: the needs_quoting test.
NeedsQuoting(s) ==
    \E k \in DOMAIN s :
        IsWhitespace(s[k]) \/ s[k] \in {DQ, SQ, BS, NL, CR, TAB}

\* The single-quoted form: a quote inside closes, is escaped, and reopens.
QuoteSingle(s) ==
    <<SQ>> \o Concat([k \in DOMAIN s |->
                        IF s[k] = SQ THEN <<SQ, BS, SQ, SQ>> ELSE <<s[k]>>])
           \o <<SQ>>

\* A slip in the double-quoted form: the dollar sign gets a backslash too.
QuoteDouble_escapesDollar(s) ==
    <<DQ>> \o Concat([k \in DOMAIN s |->
                        IF s[k] \in {BS, DOLLAR} THEN <<BS, s[k]>>
                        ELSE IF s[k] = DQ THEN <<BS, DQ>> ELSE <<s[k]>>])
           \o <<DQ>>

\* The double-quoted form: only backslash and double quote get a backslash.
QuoteDouble(s) ==
    <<DQ>> \o Concat([k \in DOMAIN s |->
                        IF s[k] = BS THEN <<BS, BS>>
                        ELSE IF s[k] = DQ THEN <<BS, DQ>> ELSE <<s[k]>>])
           \o <<DQ>>

quote_if_needed(s) ==
    IF NeedsQuoting(s)
    THEN IF CountChar(s, DQ) > CountChar(s, SQ) THEN QuoteSingle(s)
         ELSE QuoteDouble(s)
    ELSE s

\* Command::to_shell_string
to_shell_string(components) ==
    Join([k \in DOMAIN components |-> quote_if_needed(components[k])], <<SP>>)

RECURSIVE ParseSegments_skipsBadSegment(_, _)
\* A slip in the loop over the segments: a segment shlex cannot split is
\* skipped instead of failing the parse.
ParseSegments_skipsBadSegment(lines, components) ==
    IF lines = <<>> THEN [ok |-> TRUE, components |-> components]
    ELSE LET trimmed == Trim(Head(lines))
         IN  IF trimmed = <<>>
             THEN ParseSegments_skipsBadSegment(Tail(lines), components)
             ELSE LET r == ShlexSplit(trimmed)
                  IN  ParseSegments_skipsBadSegment(Tail(lines),
                                                    components \o r.words)

RECURSIVE ParseSegments(_, _)
\* The loop of TryFrom<&str> for Command over the segments: a segment that
\* is empty after trimming is skipped, a segment shlex cannot split fails.
ParseSegments(lines, components) ==
    IF lines = <<>> THEN [ok |-> TRUE, components |-> components]
    ELSE LET trimmed == Trim(Head(lines))
         IN  IF trimmed = <<>> THEN ParseSegments(Tail(lines), components)
             ELSE LET r == ShlexSplit(trimmed)
                  IN  IF ~r.ok
                      THEN [ok |-> FALSE, components |-> <<>>]
                      ELSE ParseSegments(Tail(lines), components \o r.words)

\* TryFrom<&str> for Command: err is "parse" (shlex failed), "empty"
\* (no component) or "none".
Command_try_from(command_str) ==
    LET r == ParseSegments(SplitContinuations(command_str, <<>>), <<>>)
    IN  IF ~r.ok THEN [ok |-> FALSE, err |-> "parse", components |-> <<>>]
        ELSE IF r.components = <<>>
             THEN [ok |-> FALSE, err |-> "empty", components |-> <<>>]
             ELSE [ok |-> TRUE, err |-> "none", components |-> r.components]

(***************************************************************************)
(* command_parser.rs: the classifying parser                               *)
(***************************************************************************)
\* The CommandComponent variants.
Base(text) == [kind |-> "Base", text |-> text]
Flag(text) == [kind |-> "Flag", text |-> text]
Value(text) == [kind |-> "Value", text |-> text]
LineBreak == [kind |-> "LineBreak", text |-> <<>>]

\* token.starts_with('-')
StartsWithDash(token) == token # <<>> /\ token[1] = "-"

\* A slip in the search for the equals sign: the last one is taken.
FindEq_last(token, i) ==
    IF \E k \in i..Len(token) : token[k] = "="
    THEN CHOOSE k \in i..Len(token) :
            token[k] = "=" /\ \A j \in (k + 1)..Len(token) : token[j] # "="
    ELSE 0

RECURSIVE FindEq(_, _)
\* token.find('='), searching from position i: the 1-based position of the
\* first equals sign, 0 for None.
FindEq(token, i) ==
    IF i > Len(token) THEN 0
    ELSE IF token[i] = "=" THEN i
    ELSE FindEq(token, i + 1)

RECURSIVE ParseBaseWords(_, _, _)
\* The first loop over a segment's tokens: up to the first token that
\* starts with a dash, every token is a Base. i is 1-based.
ParseBaseWords(tokens, i, all_components) ==
    IF i > Len(tokens) \/ StartsWithDash(tokens[i])
    THEN [i |-> i, all_components |-> all_components]
    ELSE ParseBaseWords(tokens, i + 1, Append(all_components, Base(tokens[i])))

RECURSIVE ParseArguments(_, _, _)
\* The second loop over a segment's tokens, from token i (1-based).
ParseArguments(tokens, i, all_components) ==
    IF i > Len(tokens) THEN all_components
    ELSE LET token == tokens[i]
             eq_pos == FindEq(token, 1)
         IN  IF StartsWithDash(token)
             THEN IF eq_pos # 0
                  THEN ParseArguments(tokens, i + 1,
                          all_components \o
                            <<Flag(SubSeq(token, 1, eq_pos - 1)),
                              Value(SubSeq(token, eq_pos + 1, Len(token)))>>)
                  ELSE IF i + 1 <= Len(tokens) /\ ~StartsWithDash(tokens[i + 1])
                  THEN ParseArguments(tokens, i + 2,
                          all_components \o <<Flag(token), Value(tokens[i + 1])>>)
                  ELSE ParseArguments(tokens, i + 1,
                          Append(all_components, Flag(token)))
             ELSE ParseArguments(tokens, i + 1,
                     Append(all_components, Value(token)))

RECURSIVE ParseLines(_, _)
\* The loop of parse_command over the segments; a segment that is not the
\* last one leaves a LineBreak, whether it held tokens or not.
ParseLines(lines, all_components) ==
    IF lines = <<>> THEN [ok |-> TRUE, components |-> all_components]
    ELSE LET trimmed == Trim(Head(lines))
             not_last == Tail(lines) # <<>>
             with_break(cs) == IF not_last THEN Append(cs, LineBreak) ELSE cs
         IN  IF trimmed = <<>>
             THEN ParseLines(Tail(lines), with_break(all_components))
             ELSE LET r == ShlexSplit(trimmed)
                  IN  IF ~r.ok THEN [ok |-> FALSE, components |-> <<>>]
                      ELSE IF r.words = <<>>
                      THEN ParseLines(Tail(lines), with_break(all_components))
                      ELSE LET b == ParseBaseWords(r.words, 1, all_components)
                               a == ParseArguments(r.words, b.i, b.all_components)
                           IN  ParseLines(Tail(lines), with_break(a))

\* parse_command: err is "parse" (shlex failed), "empty" (no component)
\* or "none".
parse_command(command_str) ==
    LET r == ParseLines(SplitContinuations(command_str, <<>>), <<>>)
    IN  IF ~r.ok THEN [ok |-> FALSE, err |-> "parse", components |-> <<>>]
        ELSE IF r.components = <<>>
             THEN [ok |-> FALSE, err |-> "empty", components |-> <<>>]
             ELSE [ok |-> TRUE, err |-> "none", components |-> r.components]

(***************************************************************************)
(* Bounds of the model                                                     *)
(***************************************************************************)
\* The longest undo stack: a fresh edit is taken only below it.
MaxUndo == 2
\* The longest scratch buffer a key may produce by typing.
MaxLen == 1
\* How far past the component count a selection may run (release build,
\* select_next_component on an empty Document) before the model stops it.
MaxOvershoot == 1
\* The longest string the quoting specification draws.
MaxStrLen == 3
\* The most pieces the parsing specification writes a raw command from.
MaxPieces == 3
\* The longest Document of the Document specification.
MaxDocLen == 2
\* The longest text (in characters) that is wrapped or edited.
MaxTextLen == 3
\* The largest wrap width.
MaxWidth == 3
\* The most Base words, and the most commands of a history.
MaxBase == 2
MaxHistory == 2

\* The characters a key event may carry into the scratch buffer: u, which
\* is the undo key outside input mode (every character takes the same arm).
TypeChars == {"u"}

\* The raw command lines the session may be started with.
InitCommands ==
    { <<SQ, SP, SQ>>, <<>>, <<SQ, "a">> }

(***************************************************************************)
(* State                                                                   *)
(***************************************************************************)
VARIABLES
    pc,           \* "start" | "running" | "exited" | "panicked" ("idle": no session)
    build,        \* "debug" | "release": whether overflow checks are compiled in
    command_str,  \* run_tui's argument
    app,          \* the App: cmd, selected, input_mode, current_input, undo
    stdout,       \* what main printed: NoOutput, or the final command
    exit_code,    \* the process's exit status (Running while it runs)
    raw_mode,     \* whether the terminal is in raw mode
    last_key,     \* history: the last key event handled
    docs_run,     \* history: the Documents of the current run of fresh edits
    undone,       \* history: the undos performed since the last edit or redo
    undo_snaps,   \* history: the Document and stack lengths before each undo of the streak
    redone,       \* history: the redos performed since that streak of undos
    edit_start,   \* history: the App when the current edit session started
    q_pc,         \* quoting specification: "input" | "quoted" | "split"
    q_s,          \* quoting specification: the string drawn
    q_quoted,     \* quoting specification: quote_if_needed(q_s)
    q_split,      \* quoting specification: shlex::split(q_quoted)
    p_pc,         \* parsing specification: "input" | "tried" | "parsed"
    p_pieces,     \* parsing specification: the pieces the input is written from
    p_seps,       \* parsing specification: the separators between the pieces
    p_input,      \* parsing specification: the raw command
    p_doc,        \* parsing specification: Command::try_from(p_input)
    p_result,     \* parsing specification: parse_command(p_input)
    d_pc,         \* Document specification: "ready" | "done" | "inserted" | "round"
    d_app,        \* Document specification: the App that holds the Document
    d_before,     \* Document specification: the components before the operation
    d_op,         \* Document specification: the operation applied
    d_index,      \* Document specification: its index argument
    d_value,      \* Document specification: its value argument
    d_returned,   \* Document specification: what the operation returned
    w_pc,         \* wrapping specification: "input" | "wrapped" | "positioned" | "back" | "indexed"
    w_content,    \* wrapping specification: the text drawn
    w_width,      \* wrapping specification: the width drawn
    w_text,       \* wrapping specification: the WrapText
    w_index,      \* wrapping specification: the byte index position is called with
    w_pos,        \* wrapping specification: a position, <<column, row>>
    w_back,       \* wrapping specification: index_at_position(w_pos)
    e_pc,         \* editor specification: "running" | "panicked"
    e_build,      \* editor specification: "debug" | "release"
    editor,       \* editor specification: the Editor
    e_op,         \* editor specification: the last method called
    e_ch,         \* editor specification: the argument of input_char
    h_pc,         \* history specification: "input" | "matched" | "loaded"
    h_base,       \* history specification: the Base words of the command
    h_lines,      \* history specification: the history's commands
    h_matches,    \* history specification: matches_base_command of each line
    h_scanned,    \* history specification: the commands load_history_for_command scans
    h_source,     \* history specification: what the history source is like
    h_result,     \* history specification: how load_history_for_command ended
    h_values      \* history specification: the map it returned

progVars == <<pc, build, command_str, app, stdout, exit_code, raw_mode>>
histVars == <<last_key, docs_run, undone, undo_snaps, redone, edit_start>>
sessionVars == <<progVars, histVars>>
quoteVars == <<q_pc, q_s, q_quoted, q_split>>
parseVars == <<p_pc, p_pieces, p_seps, p_input, p_doc, p_result>>
docVars == <<d_pc, d_app, d_before, d_op, d_index, d_value, d_returned>>
wrapVars == <<w_pc, w_content, w_width, w_text, w_index, w_pos, w_back>>
editorVars == <<e_pc, e_build, editor, e_op, e_ch>>
historyVars == <<h_pc, h_base, h_lines, h_matches, h_scanned, h_source, h_result,
                 h_values>>
textVars == <<docVars, wrapVars, editorVars, historyVars>>
vars == <<sessionVars, quoteVars, parseVars, textVars>>

\* Option::None of ListState::selected; Some(i) is the index i.
None == -1
\* usize::MAX (2^64 - 1 on the targets; TLC's integers end at 2^31 - 1).
UsizeMax == 2147483647
\* Nothing was written to standard output.
NoOutput == <<"<nothing>">>
\* The process has not exited.
Running == -1

Last(s) == s[Len(s)]
Front(s) == SubSeq(s, 1, Len(s) - 1)

(***************************************************************************)
(* undo.rs: the two stacks                                                 *)
(***************************************************************************)
Undo_new == [undo_stack |-> <<>>, redo_stack |-> <<>>]

\* A slip in push: the redo stack is never cleared.
Undo_push_keepsRedo(u, action, clear_redo) ==
    [undo_stack |-> Append(u.undo_stack, action), redo_stack |-> u.redo_stack]

\* Undo::push(action, clear_redo)
Undo_push(u, action, clear_redo) ==
    [undo_stack |-> Append(u.undo_stack, action),
     redo_stack |-> IF clear_redo THEN <<>> ELSE u.redo_stack]

\* Undo::pop: the stacks after the pop (the popped action is Last(undo_stack)).
Undo_pop(u) == [u EXCEPT !.undo_stack = Front(u.undo_stack)]

\* Undo::push_redo
Undo_push_redo(u, action) ==
    [u EXCEPT !.redo_stack = Append(u.redo_stack, action)]

\* A slip in pop_redo: the whole redo stack is dropped.
Undo_pop_redo_dropsAll(u) == [u EXCEPT !.redo_stack = <<>>]

\* Undo::pop_redo
Undo_pop_redo(u) == [u EXCEPT !.redo_stack = Front(u.redo_stack)]

(***************************************************************************)
(* command.rs: the Document                                                *)
(***************************************************************************)
component_count(a) == Len(a.cmd)

\* The call panicked and returned no component.
NoComponent == <<"<none>">>

\* A panic of the process (index out of bounds, arithmetic overflow in a
\* debug build): the App is left as it was when the panic struck.
Panic(a) == [a EXCEPT !.panicked = TRUE]

\* Command::remove_component_at: Vec::remove panics when index >= len.
remove_component_at(a, index) ==
    IF index >= Len(a.cmd) THEN Panic(a)
    ELSE [a EXCEPT !.cmd = VecRemove(a.cmd, index)]

\* What Command::remove_component_at returns: the removed component.
remove_component_at_returns(a, index) ==
    IF index >= Len(a.cmd) THEN NoComponent ELSE a.cmd[index + 1]

\* What Command::set_value_at returns: the value that was replaced.
set_value_at_returns(a, index) ==
    IF index >= Len(a.cmd) THEN NoComponent ELSE a.cmd[index + 1]

\* Command::set_value_at: indexing panics when index >= len.
set_value_at(a, index, new_value) ==
    IF index >= Len(a.cmd) THEN Panic(a)
    ELSE [a EXCEPT !.cmd = VecReplace(a.cmd, index, new_value)]

\* Command::insert_component_at: Vec::insert panics when index > len.
insert_component_at(a, index, value) ==
    IF index > Len(a.cmd) THEN Panic(a)
    ELSE [a EXCEPT !.cmd = VecInsert(a.cmd, index, value)]

\* ListState::select
select(a, sel) == [a EXCEPT !.selected = sel]

\* The selection repair shared by undo of Insert, redo of Delete and delete.
SelectAfterRemove(a, position) ==
    LET count == component_count(a)
    IN  IF count = 0 THEN select(a, None)
        ELSE IF position >= count THEN select(a, count - 1)
        ELSE select(a, position)

(***************************************************************************)
(* app.rs: the App and its methods                                         *)
(***************************************************************************)
\* App::new
App_new(cmd) ==
    [cmd |-> cmd, selected |-> 0, input_mode |-> FALSE,
     current_input |-> <<>>, undo |-> Undo_new, panicked |-> FALSE]

\* The App before run_tui has built it.
NoApp ==
    [cmd |-> <<>>, selected |-> None, input_mode |-> FALSE,
     current_input |-> <<>>, undo |-> Undo_new, panicked |-> FALSE]

\* UndoAction's variants
InsertAction(position, inserted_value) ==
    [type |-> "Insert", position |-> position, inserted_value |-> inserted_value]
EditAction(position, original_value, updated_value) ==
    [type |-> "Edit", position |-> position,
     original_value |-> original_value, updated_value |-> updated_value]
DeleteAction(position, deleted_value) ==
    [type |-> "Delete", position |-> position, deleted_value |-> deleted_value]

\* App::undo, the Insert arm: the inserted component is removed again.
UndoInsert(a0, last) ==
    LET a1 == remove_component_at(a0, last.position)
        a2 == SelectAfterRemove(a1, last.position)
    IN  IF a1.panicked THEN a1
        ELSE [a2 EXCEPT !.undo = Undo_push_redo(a2.undo, last)]

\* A slip in the Edit arm of undo: the updated value is written instead of
\* the original one.
UndoEdit_writesUpdated(a0, last) ==
    LET a1 == set_value_at(a0, last.position, last.updated_value)
        a2 == select(a1, last.position)
    IN  IF a1.panicked THEN a1
        ELSE [a2 EXCEPT !.undo = Undo_push_redo(a2.undo, last)]

\* App::undo, the Edit arm: the original value is put back.
UndoEdit(a0, last) ==
    LET a1 == set_value_at(a0, last.position, last.original_value)
        a2 == select(a1, last.position)
    IN  IF a1.panicked THEN a1
        ELSE [a2 EXCEPT !.undo = Undo_push_redo(a2.undo, last)]

\* App::undo, the Delete arm: the deleted component is inserted again.
UndoDelete(a0, last) ==
    LET a1 == insert_component_at(a0, last.position, last.deleted_value)
        a2 == select(a1, last.position)
    IN  IF a1.panicked THEN a1
        ELSE [a2 EXCEPT !.undo = Undo_push_redo(a2.undo, last)]

\* App::undo with an action to pop.
UndoLast(a) ==
    LET last == Last(a.undo.undo_stack)
        a0 == [a EXCEPT !.undo = Undo_pop(a.undo)]
    IN  CASE last.type = "Insert" -> UndoInsert(a0, last)
          [] last.type = "Edit" -> UndoEdit(a0, last)
          [] last.type = "Delete" -> UndoDelete(a0, last)

\* A slip in undo: the popped Option is unwrapped, so an empty stack panics.
App_undo_unwraps(a) == IF a.undo.undo_stack = <<>> THEN Panic(a) ELSE UndoLast(a)

\* App::undo: `if let Some(last) = self.undo.pop()`.
App_undo(a) == IF a.undo.undo_stack = <<>> THEN a ELSE UndoLast(a)

\* A slip in the Insert arm of redo: the action goes back through a push
\* that clears the redo stack.
RedoInsert_clearsRedo(a0, action) ==
    LET a1 == insert_component_at(a0, action.position, action.inserted_value)
        a2 == select(a1, action.position)
    IN  IF a1.panicked THEN a1
        ELSE [a2 EXCEPT !.undo = Undo_push(a2.undo, action, TRUE)]

\* App::redo, the Insert arm. The action goes back on the undo stack
\* directly (self.undo.actions.push), so redo is not cleared.
RedoInsert(a0, action) ==
    LET a1 == insert_component_at(a0, action.position, action.inserted_value)
        a2 == select(a1, action.position)
    IN  IF a1.panicked THEN a1
        ELSE [a2 EXCEPT !.undo = Undo_push(a2.undo, action, FALSE)]

\* App::redo, the Edit arm.
RedoEdit(a0, action) ==
    LET a1 == set_value_at(a0, action.position, action.updated_value)
        a2 == select(a1, action.position)
    IN  IF a1.panicked THEN a1
        ELSE [a2 EXCEPT !.undo = Undo_push(a2.undo, action, FALSE)]

\* App::redo, the Delete arm.
RedoDelete(a0, action) ==
    LET a1 == remove_component_at(a0, action.position)
        a2 == SelectAfterRemove(a1, action.position)
    IN  IF a1.panicked THEN a1
        ELSE [a2 EXCEPT !.undo = Undo_push(a2.undo, action, FALSE)]

\* App::redo with an action to pop.
RedoLast(a) ==
    LET action == Last(a.undo.redo_stack)
        a0 == [a EXCEPT !.undo = Undo_pop_redo(a.undo)]
    IN  CASE action.type = "Insert" -> RedoInsert(a0, action)
          [] action.type = "Edit" -> RedoEdit(a0, action)
          [] action.type = "Delete" -> RedoDelete(a0, action)

\* App::redo: `if let Some(action) = self.undo.pop_redo()`.
App_redo(a) == IF a.undo.redo_stack = <<>> THEN a ELSE RedoLast(a)

\* A slip in insert_new_component_at: the action records the index after
\* the one the component went to.
insert_new_component_at_recordsNext(a, insert_at) ==
    LET value == <<>>
        a1 == insert_component_at(a, insert_at, value)
        a2 == select(a1, insert_at)
    IN  IF a1.panicked THEN a1
        ELSE [a2 EXCEPT !.undo =
                Undo_push(a2.undo, InsertAction(insert_at + 1, value), TRUE)]

\* App::insert_new_component_at: a fresh edit, so the push clears redo.
insert_new_component_at(a, insert_at) ==
    LET value == <<>>
        a1 == insert_component_at(a, insert_at, value)
        a2 == select(a1, insert_at)
    IN  IF a1.panicked THEN a1
        ELSE [a2 EXCEPT !.undo =
                Undo_push(a2.undo, InsertAction(insert_at, value), TRUE)]

\* App::insert_new_component
insert_new_component(a) ==
    insert_new_component_at(a, IF a.selected = None THEN 0 ELSE a.selected)

\* A slip in append_new_component: the new component goes to the selected
\* index instead of the one after it.
append_new_component_atSelected(a) ==
    IF a.selected = None THEN insert_new_component_at(a, component_count(a))
    ELSE insert_new_component_at(a, a.selected)

\* App::append_new_component: i + 1 overflows at usize::MAX (a panic in a
\* debug build, a wrap to 0 in a release build).
append_new_component(a) ==
    IF a.selected = None THEN insert_new_component_at(a, component_count(a))
    ELSE IF a.selected = UsizeMax
         THEN IF build = "debug" THEN Panic(a)
              ELSE insert_new_component_at(a, 0)
    ELSE insert_new_component_at(a, a.selected + 1)

\* A slip in delete_selected_component: the selection is left where it
\* was when the last component was removed.
delete_selected_component_keepsSelection(a) ==
    IF a.selected = None THEN a
    ELSE
      LET selected == a.selected
          a1 == remove_component_at(a, selected)
          value == a.cmd[selected + 1]
          a2 == [a1 EXCEPT !.undo =
                    Undo_push(a1.undo, DeleteAction(selected, value), TRUE)]
          count == component_count(a2)
      IN  IF a1.panicked THEN a1
          ELSE IF count = 0 THEN select(a2, None)
          ELSE a2

\* App::delete_selected_component
delete_selected_component(a) ==
    IF a.selected = None THEN a
    ELSE
      LET selected == a.selected
          a1 == remove_component_at(a, selected)
          value == a.cmd[selected + 1]
          a2 == [a1 EXCEPT !.undo =
                    Undo_push(a1.undo, DeleteAction(selected, value), TRUE)]
          count == component_count(a2)
      IN  IF a1.panicked THEN a1
          ELSE IF count = 0 THEN select(a2, None)
          ELSE IF selected >= count THEN select(a2, count - 1)
          ELSE a2

\* component_count() - 1 in usize: at count 0 the subtraction overflows.
CountMinusOne(a) ==
    IF component_count(a) = 0 THEN UsizeMax ELSE component_count(a) - 1

\* App::select_next_component
select_next_component(a) ==
    LET start == IF a.selected = None THEN 0 ELSE a.selected
    IN  IF component_count(a) = 0 /\ build = "debug" THEN Panic(a)
        ELSE IF start >= CountMinusOne(a) THEN select(a, 0)
        ELSE select(a, start + 1)

\* App::select_previous_component
select_previous_component(a) ==
    LET start == IF a.selected = None THEN 0 ELSE a.selected
    IN  IF start = 0
        THEN IF component_count(a) = 0 /\ build = "debug" THEN Panic(a)
             ELSE select(a, CountMinusOne(a))
        ELSE select(a, start - 1)

\* App::start_input
start_input(a) ==
    IF a.selected = None THEN a
    ELSE IF a.selected >= Len(a.cmd) THEN Panic(a)
    ELSE [a EXCEPT !.input_mode = TRUE,
                   !.current_input = a.cmd[a.selected + 1]]

\* A slip in confirm_input: the Edit action records the two values swapped.
confirm_input_swapsValues(a) ==
    LET a1 == set_value_at(a, a.selected, a.current_input)
        old_value == a.cmd[a.selected + 1]
        a2 == IF a.selected = None THEN a
              ELSE [a1 EXCEPT !.undo =
                      Undo_push(a1.undo,
                                EditAction(a.selected, a.current_input, old_value),
                                TRUE)]
    IN  IF a.selected # None /\ a1.panicked THEN a1
        ELSE [a2 EXCEPT !.input_mode = FALSE, !.current_input = <<>>]

\* App::confirm_input
confirm_input(a) ==
    LET a1 == set_value_at(a, a.selected, a.current_input)
        old_value == a.cmd[a.selected + 1]
        a2 == IF a.selected = None THEN a
              ELSE [a1 EXCEPT !.undo =
                      Undo_push(a1.undo,
                                EditAction(a.selected, old_value, a.current_input),
                                TRUE)]
    IN  IF a.selected # None /\ a1.panicked THEN a1
        ELSE [a2 EXCEPT !.input_mode = FALSE, !.current_input = <<>>]

\* A slip in cancel_input: the scratch buffer is committed.
cancel_input_commits(a) == confirm_input(a)

\* App::cancel_input
cancel_input(a) == [a EXCEPT !.input_mode = FALSE, !.current_input = <<>>]

(***************************************************************************)
(* wrap_text.rs: the wrapped text buffer                                   *)
(***************************************************************************)
\* U+4F60, an East-Asian wide character: three bytes, two columns.
WIDE == "WIDE"
\* U+0301, a combining accent: two bytes, no column of its own.
COMB == "COMB"

\* char::len_utf8
len_utf8(ch) ==
    IF ch = WIDE THEN 3 ELSE IF ch \in {COMB, NBSP} THEN 2 ELSE 1

\* UnicodeWidthChar::width(ch).unwrap_or(1): control characters have no
\* width (None) and count 1, combining marks count 0, wide characters 2.
CharWidth(ch) ==
    IF ch = WIDE THEN 2 ELSE IF ch = COMB THEN 0 ELSE 1

\* str::len: the length in bytes.
RECURSIVE ByteLen(_)
ByteLen(s) == IF s = <<>> THEN 0 ELSE len_utf8(Head(s)) + ByteLen(Tail(s))

\* The sum of the display widths of the characters of s.
RECURSIVE DisplayWidth(_)
DisplayWidth(s) ==
    IF s = <<>> THEN 0 ELSE CharWidth(Head(s)) + DisplayWidth(Tail(s))

\* str::is_char_boundary: 0, the length, and the start of every character.
is_char_boundary(s, index) ==
    \E k \in 0..Len(s) : ByteLen(SubSeq(s, 1, k)) = index

\* The number of characters before the character boundary index.
CharsBefore(s, index) ==
    CHOOSE k \in 0..Len(s) : ByteLen(SubSeq(s, 1, k)) = index

\* &s[..index]: the characters before the character boundary index.
StrPrefix(s, index) == SubSeq(s, 1, CharsBefore(s, index))

\* String::insert(index, ch), for index a character boundary.
StringInsert(s, index, ch) == VecInsert(s, CharsBefore(s, index), ch)

\* String::remove(index), for index the start of a character.
StringRemove(s, index) == VecRemove(s, CharsBefore(s, index))

WrapTextLine(content, start_index, end_index) ==
    [content |-> content, start_index |-> start_index, end_index |-> end_index]

\* A slip in wrap_text's loop: the line is broken as soon as it is full.
RECURSIVE WrapLoop_breaksEarly(_, _, _, _)
WrapLoop_breaksEarly(text, k, width, st) ==
    IF k > Len(text) THEN st
    ELSE
      LET ch == text[k]
          char_len == len_utf8(ch)
          char_width == CharWidth(ch)
          pushed == Append(st.lines,
                           WrapTextLine(st.current_line, st.line_start_index,
                                        st.current_index))
      IN  IF ch = NL
          THEN WrapLoop_breaksEarly(text, k + 1, width,
                  [lines |-> pushed, current_line |-> <<>>, current_width |-> 0,
                   current_index |-> st.current_index + char_len,
                   line_start_index |-> st.current_index + char_len])
          ELSE
            LET broken ==
                  IF st.current_width + char_width >= width /\ st.current_line # <<>>
                  THEN [st EXCEPT !.lines = pushed, !.current_line = <<>>,
                                  !.current_width = 0,
                                  !.line_start_index = st.current_index]
                  ELSE st
            IN  WrapLoop_breaksEarly(text, k + 1, width,
                   [broken EXCEPT !.current_line = Append(broken.current_line, ch),
                                  !.current_width = broken.current_width + char_width,
                                  !.current_index = broken.current_index + char_len])

\* wrap_text's loop over the characters from the k-th on; st holds the
\* function's local variables.
RECURSIVE WrapLoop(_, _, _, _)
WrapLoop(text, k, width, st) ==
    IF k > Len(text) THEN st
    ELSE
      LET ch == text[k]
          char_len == len_utf8(ch)
          char_width == CharWidth(ch)
          pushed == Append(st.lines,
                           WrapTextLine(st.current_line, st.line_start_index,
                                        st.current_index))
      IN  IF ch = NL
          THEN WrapLoop(text, k + 1, width,
                  [lines |-> pushed, current_line |-> <<>>, current_width |-> 0,
                   current_index |-> st.current_index + char_len,
                   line_start_index |-> st.current_index + char_len])
          ELSE
            LET broken ==
                  IF st.current_width + char_width > width /\ st.current_line # <<>>
                  THEN [st EXCEPT !.lines = pushed, !.current_line = <<>>,
                                  !.current_width = 0,
                                  !.line_start_index = st.current_index]
                  ELSE st
            IN  WrapLoop(text, k + 1, width,
                   [broken EXCEPT !.current_line = Append(broken.current_line, ch),
                                  !.current_width = broken.current_width + char_width,
                                  !.current_index = broken.current_index + char_len])

\* A slip in wrap_text: with width 0 the line ends at the number of
\* characters, not of bytes.
wrap_text_countsChars(text, width) ==
    IF width = 0 THEN << WrapTextLine(text, 0, Len(text)) >>
    ELSE
      LET st == WrapLoop(text, 1, width,
                    [lines |-> <<>>, current_line |-> <<>>, current_width |-> 0,
                     line_start_index |-> 0, current_index |-> 0])
      IN  IF st.current_line # <<>> \/ st.lines = <<>>
          THEN Append(st.lines,
                      WrapTextLine(st.current_line, st.line_start_index,
                                   st.current_index))
          ELSE st.lines

\* wrap_text
wrap_text(text, width) ==
    IF width = 0 THEN << WrapTextLine(text, 0, ByteLen(text)) >>
    ELSE
      LET st == WrapLoop(text, 1, width,
                    [lines |-> <<>>, current_line |-> <<>>, current_width |-> 0,
                     line_start_index |-> 0, current_index |-> 0])
      IN  IF st.current_line # <<>> \/ st.lines = <<>>
          THEN Append(st.lines,
                      WrapTextLine(st.current_line, st.line_start_index,
                                   st.current_index))
          ELSE st.lines

\* WrapText::new
WrapText_new(text, width) ==
    [lines |-> wrap_text(text, width), content |-> text, width |-> width]

\* A slip in index_at_position's loop: it stops only after passing the
\* target column.
RECURSIVE IndexWalk_overshoots(_, _, _, _, _)
IndexWalk_overshoots(content, k, current_col, byte_offset, target_col) ==
    IF k > Len(content) \/ current_col > target_col THEN byte_offset
    ELSE IndexWalk_overshoots(content, k + 1, current_col + CharWidth(content[k]),
                              byte_offset + len_utf8(content[k]), target_col)

\* index_at_position's loop over the characters of the line from the k-th on.
RECURSIVE IndexWalk(_, _, _, _, _)
IndexWalk(content, k, current_col, byte_offset, target_col) ==
    IF k > Len(content) \/ current_col >= target_col THEN byte_offset
    ELSE IndexWalk(content, k + 1, current_col + CharWidth(content[k]),
                   byte_offset + len_utf8(content[k]), target_col)

\* WrapText::index_at_position; a position is <<column, row>>.
index_at_position(t, position) ==
    LET line_num == position[2]
        target_col == position[1]
    IN  IF line_num >= Len(t.lines) THEN ByteLen(t.content)
        ELSE LET line == t.lines[line_num + 1]
             IN  line.start_index + IndexWalk(line.content, 1, 0, 0, target_col)

\* position's loop over the lines from the k-th on (line_num = k - 1).
RECURSIVE PositionFrom(_, _, _)
PositionFrom(t, index, k) ==
    IF k > Len(t.lines) THEN [panicked |-> FALSE, pos |-> <<0, k - 1>>]
    ELSE
      LET line == t.lines[k]
      IN  IF index >= line.start_index /\ index <= line.end_index
          THEN LET byte_offset == index - line.start_index
               IN  IF is_char_boundary(line.content, byte_offset)
                   THEN [panicked |-> FALSE,
                         pos |-> <<DisplayWidth(StrPrefix(line.content, byte_offset)),
                                   k - 1>>]
                   ELSE [panicked |-> TRUE, pos |-> <<0, k - 1>>]
          ELSE PositionFrom(t, index, k + 1)

\* WrapText::position, with whether slicing the line panicked.
position_checked(t, index) == PositionFrom(t, index, 1)

\* WrapText::position
position(t, index) == position_checked(t, index).pos

\* WrapText::height
height(t) == Len(t.lines)

\* WrapText::update
update(t) == [t EXCEPT !.lines = wrap_text(t.content, t.width)]

\* WrapText::clear
WrapText_clear(t) == [t EXCEPT !.content = <<>>, !.lines = <<>>]

\* WrapText::set_text
set_text(t, text) == update([t EXCEPT !.content = text])

\* WrapText::set_width
set_width(t, width) == update([t EXCEPT !.width = width])

\* WrapText::len
WrapText_len(t) == ByteLen(t.content)

\* String::insert panics unless index is a character boundary of the content.
InsertPanics(t, index) == ~is_char_boundary(t.content, index)

\* WrapText::insert
WrapText_insert(t, index, ch) ==
    update([t EXCEPT !.content = StringInsert(t.content, index, ch)])

\* String::remove panics unless a character starts at index.
RemovePanics(t, index) ==
    index >= ByteLen(t.content) \/ ~is_char_boundary(t.content, index)

\* WrapText::remove
WrapText_remove(t, index) ==
    update([t EXCEPT !.content = StringRemove(t.content, index)])

(***************************************************************************)
(* editor.rs: the scratch buffer and its cursor                            *)
(***************************************************************************)
\* The wrap width of a new Editor.
EditorWidth == 80

\* Editor::new
Editor_new ==
    [content |-> WrapText_new(<<>>, EditorWidth), cursor_index |-> 0,
     is_editing |-> FALSE, panicked |-> FALSE]

\* A panic of the process: the Editor is left as it was.
EditorPanic(e) == [e EXCEPT !.panicked = TRUE]

\* Editor::clear
Editor_clear(e) ==
    [e EXCEPT !.content = WrapText_clear(e.content), !.cursor_index = 0]

\* Editor::start_input
Editor_start_input(e, value) ==
    LET content == set_text(e.content, value)
    IN  [e EXCEPT !.content = content, !.cursor_index = WrapText_len(content),
                  !.is_editing = TRUE]

\* Editor::end_input: the Editor afterwards (the text is what it returns).
end_input(e) == Editor_clear([e EXCEPT !.is_editing = FALSE])

\* Editor::cancel_input
Editor_cancel_input(e) == Editor_clear([e EXCEPT !.is_editing = FALSE])

\* Editor::set_content_width
set_content_width(e, width) == [e EXCEPT !.content = set_width(e.content, width)]

\* Editor::content_height
content_height(e) == height(e.content)

\* Editor::cursor_position
cursor_position(e) == position(e.content, e.cursor_index)

\* Editor::move_cursor_up: p[1] - 1 underflows on row 0, which panics where
\* overflow checks are compiled in and wraps to usize::MAX where they are not.
move_cursor_up(e, b) ==
    LET p == position_checked(e.content, e.cursor_index)
    IN  IF p.panicked THEN EditorPanic(e)
        ELSE IF p.pos[2] = 0 /\ b = "debug" THEN EditorPanic(e)
        ELSE LET row == IF p.pos[2] = 0 THEN UsizeMax ELSE p.pos[2] - 1
             IN  [e EXCEPT !.cursor_index =
                              index_at_position(e.content, <<p.pos[1], row>>)]

\* Editor::move_cursor_down
move_cursor_down(e) ==
    LET p == position_checked(e.content, e.cursor_index)
    IN  IF p.panicked THEN EditorPanic(e)
        ELSE [e EXCEPT !.cursor_index =
                          index_at_position(e.content, <<p.pos[1], p.pos[2] + 1>>)]

\* A slip in the loop of move_cursor_left and delete_backward: one byte
\* back, boundary or not.
BoundaryBelow_oneByte(text, idx) == idx

\* The loop of move_cursor_left and delete_backward: down to a boundary.
RECURSIVE BoundaryBelow(_, _)
BoundaryBelow(text, idx) ==
    IF idx > 0 /\ ~is_char_boundary(text, idx) THEN BoundaryBelow(text, idx - 1)
    ELSE idx

\* The loop of move_cursor_right: up to a boundary.
RECURSIVE BoundaryAbove(_, _)
BoundaryAbove(text, idx) ==
    IF idx < ByteLen(text) /\ ~is_char_boundary(text, idx)
    THEN BoundaryAbove(text, idx + 1)
    ELSE idx

\* Editor::move_cursor_left
move_cursor_left(e) ==
    IF e.cursor_index > 0
    THEN [e EXCEPT !.cursor_index =
                      BoundaryBelow(e.content.content, e.cursor_index - 1)]
    ELSE e

\* Editor::move_cursor_right
move_cursor_right(e) ==
    IF e.cursor_index < ByteLen(e.content.content)
    THEN [e EXCEPT !.cursor_index =
                      BoundaryAbove(e.content.content, e.cursor_index + 1)]
    ELSE e

\* Editor::delete_forward
delete_forward(e) ==
    LET pos == e.cursor_index
    IN  IF pos < WrapText_len(e.content)
        THEN IF RemovePanics(e.content, pos) THEN EditorPanic(e)
             ELSE [e EXCEPT !.content = WrapText_remove(e.content, pos)]
        ELSE e

\* Editor::delete_backward
delete_backward(e) ==
    IF e.cursor_index > 0
    THEN LET prev_idx == BoundaryBelow(e.content.content, e.cursor_index - 1)
         IN  IF RemovePanics(e.content, prev_idx) THEN EditorPanic(e)
             ELSE [e EXCEPT !.content = WrapText_remove(e.content, prev_idx),
                            !.cursor_index = prev_idx]
    ELSE e

\* A slip in input_char: the cursor advances by one byte.
input_char_advancesOne(e, c) ==
    LET pos == e.cursor_index
    IN  IF InsertPanics(e.content, pos) THEN EditorPanic(e)
        ELSE [e EXCEPT !.content = WrapText_insert(e.content, pos, c),
                       !.cursor_index = e.cursor_index + 1]

\* Editor::input_char
input_char(e, c) ==
    LET pos == e.cursor_index
    IN  IF InsertPanics(e.content, pos) THEN EditorPanic(e)
        ELSE [e EXCEPT !.content = WrapText_insert(e.content, pos, c),
                       !.cursor_index = e.cursor_index + len_utf8(c)]

(***************************************************************************)
(* history.rs: the commands of the history that match the Base words       *)
(***************************************************************************)
\* The comparison of the first n tokens with the n Base words.
PrefixEqual(tokens, base_command) ==
    \A k \in 1..Len(base_command) : tokens[k] = base_command[k]

\* A slip in matches_base_command: a line with too few tokens is compared
\* over the tokens it has.
matches_base_command_shortLine(command, base_command) ==
    LET split == ShlexSplit(command)
    IN  IF ~split.ok THEN FALSE
        ELSE \A k \in 1..Len(base_command) :
                k <= Len(split.words) => split.words[k] = base_command[k]

\* matches_base_command
matches_base_command(command, base_command) ==
    LET split == ShlexSplit(command)
    IN  IF ~split.ok THEN FALSE
        ELSE IF Len(split.words) < Len(base_command) THEN FALSE
        ELSE PrefixEqual(split.words, base_command)

\* The bound of load_history_for_command on the commands it scans.
max_commands == 100000

\* The loop of load_history_for_command over commands.iter().rev(), from the
\* k-th command down: scanned collects the (1-based) numbers of the commands
\* that pass the filter and are handed to parse_command.
RECURSIVE ScanFrom(_, _, _, _, _)
ScanFrom(commands, k, base_command, count, scanned) ==
    IF k = 0 THEN scanned
    ELSE IF ~matches_base_command(commands[k], base_command)
         THEN ScanFrom(commands, k - 1, base_command, count, scanned)
    ELSE IF count + 1 >= max_commands THEN Append(scanned, k)
    ELSE ScanFrom(commands, k - 1, base_command, count + 1, Append(scanned, k))

\* The commands load_history_for_command takes values from, newest first.
ScannedCommands(commands, base_command) ==
    ScanFrom(commands, Len(commands), base_command, 0, <<>>)

\* The (flag, value) pairs of the components that hold a flag with its
\* value: a Flag directly followed by a Value.
StringArguments(components) ==
    { <<components[k].text, components[k + 1].text>> :
        k \in { j \in 1..(Len(components) - 1) :
                    /\ components[j].kind = "Flag"
                    /\ components[j + 1].kind = "Value" } }

\* What one scanned command adds to the sets of values: nothing when
\* parse_command fails.
ValuesOfCommand(command) ==
    LET parsed == parse_command(command)
    IN  IF parsed.ok THEN StringArguments(parsed.components) ELSE {}

\* The HashMap of HashSets after the loop: the pairs of every scanned command.
CollectValues(commands, scanned) ==
    UNION { ValuesOfCommand(commands[scanned[j]]) : j \in DOMAIN scanned }

\* The code point of a character of the model's words.
CharCode(c) ==
    CASE c = SP -> 32 [] c = SQ -> 39 [] c = "-" -> 45 [] c = "=" -> 61
      [] c = "a" -> 97 [] c = "b" -> 98 [] c = "f" -> 102 [] c = "g" -> 103

\* Ord for String: s < t, byte by byte, a proper prefix first.
RECURSIVE StrLess(_, _)
StrLess(s, t) ==
    IF t = <<>> THEN FALSE
    ELSE IF s = <<>> THEN TRUE
    ELSE IF Head(s) # Head(t) THEN CharCode(Head(s)) < CharCode(Head(t))
    ELSE StrLess(Tail(s), Tail(t))

\* A slip in the sort: the element is put at the end.
SortedInsert_atEnd(sorted, x) == Append(sorted, x)

\* One step of the sort: x is put before the first element that is not
\* below it.
RECURSIVE SortedInsert(_, _)
SortedInsert(sorted, x) ==
    IF sorted = <<>> THEN <<x>>
    ELSE IF StrLess(Head(sorted), x)
         THEN <<Head(sorted)>> \o SortedInsert(Tail(sorted), x)
    ELSE <<x>> \o sorted

\* [String]::sort
RECURSIVE Sort(_)
Sort(v) == IF v = <<>> THEN <<>> ELSE SortedInsert(Sort(Front(v)), Last(v))

\* HashSet::into_iter().collect(): the elements in the set's own order.
SetToVec(S) ==
    CHOOSE v \in [1..Cardinality(S) -> S] : \A x \in S : \E k \in DOMAIN v : v[k] = x

\* The map load_history_for_command builds from the sets: a sorted list
\* for every flag that has a set.
Finalize(pairs) ==
    [flag \in {pair[1] : pair \in pairs} |->
        Sort(SetToVec({pair[2] : pair \in {q \in pairs : q[1] = flag}}))]

\* HashMap::new()
NoValues == [flag \in {} |-> <<>>]

\* load_history_for_command: how it ends ("ok": Ok(map), "err": Err,
\* "never": it does not return), the commands it scanned and the map.
load_history_for_command(source, commands, base_command) ==
    IF source \in {"no_home", "missing"}
    THEN [result |-> "ok", scanned |-> <<>>, values |-> NoValues]
    ELSE IF source = "open_fails"
    THEN [result |-> "err", scanned |-> <<>>, values |-> NoValues]
    ELSE IF source = "read_fails"
    THEN [result |-> "never", scanned |-> <<>>, values |-> NoValues]
    ELSE LET scanned == ScannedCommands(commands, base_command)
         IN  [result |-> "ok", scanned |-> scanned,
              values |-> Finalize(CollectValues(commands, scanned))]

(***************************************************************************)
(* tui.rs and main.rs: the session                                         *)
(***************************************************************************)
\* PREFIX_CHARS.len(): the row shortcuts 1-9 and the unreserved letters.
NumPrefixChars == 28
\* std::process::exit(1) of main, and the status of an Err returned by main.
ExitFailure == 1
\* The status of main returning Ok(()).
ExitSuccess == 0
\* The status of a Rust process that panicked.
ExitPanic == 101

\* Command's to_string(), which run_tui returns on execute.
Command_to_string(cmd) == to_shell_string(cmd)

\* ---- history variables ----
\* The keys whose handlers push a fresh action on the undo stack.
FreshKeys == {"insert", "append", "delete", "confirm_input"}
\* The keys that are handled inside an edit session.
SessionKeys == {"char", "backspace", "cancel_input", "confirm_input"}

\* What the history variables record of an App.
Snap(a) == [cmd |-> a.cmd, selected |-> a.selected, undo |-> a.undo]
\* The Document and the lengths of the two stacks of an App.
Sizes(a) ==
    [cmd |-> a.cmd, undo_len |-> Len(a.undo.undo_stack),
     redo_len |-> Len(a.undo.redo_stack)]
\* No edit session has been started.
NoEdit == [snap |-> Snap(NoApp), typed |-> FALSE]

\* The handler pushed a fresh action: the undo stack grew by one.
ActedFresh(key, a, a2) ==
    /\ key \in FreshKeys
    /\ ~a2.panicked
    /\ Len(a2.undo.undo_stack) = Len(a.undo.undo_stack) + 1
\* undo found an action to pop.
ActedUndo(key, a, a2) ==
    key = "undo" /\ ~a2.panicked /\ a.undo.undo_stack # <<>>
\* redo found an action to pop.
ActedRedo(key, a, a2) ==
    key = "redo" /\ ~a2.panicked /\ a.undo.redo_stack # <<>>

\* docs_run and undone. A fresh edit extends the run of fresh edits (or
\* starts a new one when undos came in between); an undo counts against the
\* run (or, the run used up, starts an empty one); a redo starts an empty run.
RunAfter(key, a, a2) ==
    IF ActedFresh(key, a, a2)
    THEN /\ docs_run' = IF undone = 0 THEN Append(docs_run, a2.cmd)
                        ELSE <<a.cmd, a2.cmd>>
         /\ undone' = 0
    ELSE IF ActedUndo(key, a, a2)
    THEN IF undone + 1 <= Len(docs_run) - 1
         THEN undone' = undone + 1 /\ UNCHANGED docs_run
         ELSE undone' = 0 /\ docs_run' = <<a2.cmd>>
    ELSE IF ActedRedo(key, a, a2)
    THEN undone' = 0 /\ docs_run' = <<a2.cmd>>
    ELSE UNCHANGED <<docs_run, undone>>

\* undo_snaps and redone. An undo adds the App it found to the streak (or
\* starts a new streak when redos came in between); a redo counts against
\* the streak; a fresh edit ends it.
StreakAfter(key, a, a2) ==
    IF ActedUndo(key, a, a2)
    THEN /\ undo_snaps' = IF redone = 0 THEN Append(undo_snaps, Sizes(a))
                          ELSE <<Sizes(a)>>
         /\ redone' = 0
    ELSE IF ActedRedo(key, a, a2)
    THEN IF redone + 1 <= Len(undo_snaps)
         THEN redone' = redone + 1 /\ UNCHANGED undo_snaps
         ELSE redone' = 0 /\ undo_snaps' = <<>>
    ELSE IF ActedFresh(key, a, a2)
    THEN redone' = 0 /\ undo_snaps' = <<>>
    ELSE UNCHANGED <<undo_snaps, redone>>

\* edit_start: taken when start_input opens an edit session (typed tells
\* whether a character or Backspace key came since), kept while the session
\* lasts and over the key that ends it, dropped by the next key.
EditStartAfter(key, a, a2) ==
    edit_start' =
        IF ~a.input_mode /\ a2.input_mode
        THEN [snap |-> Snap(a2), typed |-> FALSE]
        ELSE IF key \in {"char", "backspace"}
        THEN [edit_start EXCEPT !.typed = TRUE]
        ELSE IF key \in SessionKeys THEN edit_start
        ELSE NoEdit

\* The session is over: the history variables other than last_key are
\* emptied.
HistoryEnds ==
    /\ docs_run' = <<>>
    /\ undone' = 0
    /\ undo_snaps' = <<>>
    /\ redone' = 0
    /\ edit_start' = NoEdit

\* ---- run_app's loop ----
\* What every key handled inside the loop shares: the App becomes a2, and a
\* panic of the handler ends the process.
Handled(key, a2) ==
    /\ pc = "running"
    /\ last_key' = key
    /\ app' = a2
    /\ IF a2.panicked
       THEN pc' = "panicked" /\ exit_code' = ExitPanic
       ELSE UNCHANGED <<pc, exit_code>>
    /\ RunAfter(key, app, a2)
    /\ StreakAfter(key, app, a2)
    /\ EditStartAfter(key, app, a2)
    /\ UNCHANGED <<build, command_str, stdout, raw_mode, quoteVars, parseVars, textVars>>

\* How run_tui's way out after run_app can end: every call succeeds,
\* disable_raw_mode()? fails (the terminal stays raw), or restoring the
\* screen fails (execute!(..)? and show_cursor()?, after raw mode was left).
TeardownOutcomes == {"ok", "disable_failed", "restore_failed"}

\* How run_tui's way in between the parse and run_app can end: every call
\* succeeds, enable_raw_mode()? fails, or a later call fails with the
\* terminal already raw (opening /dev/tty, mouse capture, the Terminal).
SetupOutcomes == {"ok", "enable_failed", "tty_failed"}

\* A slip in run_tui: the command is returned whatever run_app answered.
Finish_alwaysPrints(key, should_execute) ==
    /\ pc = "running"
    /\ last_key' = key
    /\ pc' = "exited"
    /\ \E teardown \in TeardownOutcomes :
          /\ raw_mode' = (teardown = "disable_failed")
          /\ IF teardown = "ok"
             THEN stdout' = Command_to_string(app.cmd) /\ exit_code' = ExitSuccess
             ELSE stdout' = NoOutput /\ exit_code' = ExitFailure
    /\ HistoryEnds
    /\ UNCHANGED <<build, command_str, app, quoteVars, parseVars, textVars>>

\* run_app returns should_execute; run_tui leaves raw mode, restores the
\* screen and maps the answer to Some(command) or None; main prints the
\* command, or exits with status 1 (also when run_tui returned an error).
Finish(key, should_execute) ==
    /\ pc = "running"
    /\ last_key' = key
    /\ pc' = "exited"
    /\ \E teardown \in TeardownOutcomes :
          /\ raw_mode' = (teardown = "disable_failed")
          /\ IF teardown = "ok" /\ should_execute
             THEN stdout' = Command_to_string(app.cmd) /\ exit_code' = ExitSuccess
             ELSE stdout' = NoOutput /\ exit_code' = ExitFailure
    /\ HistoryEnds
    /\ UNCHANGED <<build, command_str, app, quoteVars, parseVars, textVars>>

\* A slip in run_tui: raw mode is enabled first and the command parsed
\* after it, the error leaving through `?` with the terminal raw.
RunTuiStart_rawModeFirst ==
    /\ pc = "start"
    /\ \E setup \in SetupOutcomes :
         LET r == Command_try_from(command_str)
         IN  IF setup = "enable_failed"
             THEN /\ pc' = "exited"
                  /\ exit_code' = ExitFailure
                  /\ raw_mode' = FALSE
                  /\ UNCHANGED <<app, docs_run>>
             ELSE IF r.ok /\ setup = "ok"
             THEN /\ pc' = "running"
                  /\ raw_mode' = TRUE
                  /\ app' = App_new(r.components)
                  /\ docs_run' = <<r.components>>
                  /\ UNCHANGED exit_code
             ELSE /\ pc' = "exited"
                  /\ exit_code' = ExitFailure
                  /\ raw_mode' = TRUE
                  /\ UNCHANGED <<app, docs_run>>
    /\ UNCHANGED <<build, command_str, stdout, last_key, undone, undo_snaps,
                   redone, edit_start, quoteVars, parseVars, textVars>>

\* run_tui up to the loop: the command is parsed first, and an error leaves
\* through `?` before anything else is done; then raw mode is enabled, the
\* terminal is set up and the App is created.
RunTuiStart ==
    /\ pc = "start"
    /\ \E setup \in SetupOutcomes :
         LET r == Command_try_from(command_str)
         IN  IF ~r.ok
             THEN /\ pc' = "exited"
                  /\ exit_code' = ExitFailure
                  /\ UNCHANGED <<app, docs_run, raw_mode>>
             ELSE IF setup = "ok"
             THEN /\ pc' = "running"
                  /\ raw_mode' = TRUE
                  /\ app' = App_new(r.components)
                  /\ docs_run' = <<r.components>>
                  /\ UNCHANGED exit_code
             ELSE /\ pc' = "exited"
                  /\ exit_code' = ExitFailure
                  /\ raw_mode' = (setup = "tty_failed")
                  /\ UNCHANGED <<app, docs_run>>
    /\ UNCHANGED <<build, command_str, stdout, last_key, undone, undo_snaps,
                   redone, edit_start, quoteVars, parseVars, textVars>>

\* terminal.draw or event::read fails: run_app returns the error, run_tui
\* leaves raw mode and returns it.
IoError ==
    /\ pc = "running"
    /\ pc' = "exited"
    /\ exit_code' = ExitFailure
    /\ last_key' = "io_error"
    /\ \E teardown \in TeardownOutcomes :
          raw_mode' = (teardown = "disable_failed")
    /\ HistoryEnds
    /\ UNCHANGED <<build, command_str, app, stdout, quoteVars, parseVars, textVars>>

\* ---- keys in normal mode ----
\* 'u'
KeyUndo == ~app.input_mode /\ Handled("undo", App_undo(app))

\* Ctrl+R
KeyRedo == ~app.input_mode /\ Handled("redo", App_redo(app))

\* The two calls of the 'i' and 'a' arms: the second runs unless the first
\* panicked.
ThenStartInput(a1) == IF a1.panicked THEN a1 ELSE start_input(a1)

\* 'i': insert_new_component, then start_input
KeyInsert ==
    /\ ~app.input_mode
    /\ Len(app.undo.undo_stack) < MaxUndo
    /\ Handled("insert", ThenStartInput(insert_new_component(app)))

\* 'a': append_new_component, then start_input
KeyAppend ==
    /\ ~app.input_mode
    /\ Len(app.undo.undo_stack) < MaxUndo
    /\ Handled("append", ThenStartInput(append_new_component(app)))

\* 'd', Delete, Backspace
KeyDelete ==
    /\ ~app.input_mode
    /\ Len(app.undo.undo_stack) < MaxUndo
    /\ Handled("delete", delete_selected_component(app))

\* The selections the model follows: in a release build a selection can run
\* away from an empty Document (upwards from 0, downwards from usize::MAX);
\* the model follows it MaxOvershoot steps.
SelectionInModel(a) ==
    \/ a.selected <= Len(a.cmd) + MaxOvershoot
    \/ a.selected >= UsizeMax - MaxOvershoot

\* Down, 'j'
KeyNext ==
    /\ ~app.input_mode
    /\ SelectionInModel(select_next_component(app))
    /\ Handled("next", select_next_component(app))

\* Up, 'k'
KeyPrevious ==
    /\ ~app.input_mode
    /\ SelectionInModel(select_previous_component(app))
    /\ Handled("previous", select_previous_component(app))

\* Enter
KeyStartInput == ~app.input_mode /\ Handled("start_input", start_input(app))

\* A row shortcut: PREFIX_CHARS[index] selects row index if there is one.
\* Every index past the last row does the same (nothing), so the model
\* takes the first of them only.
KeyPrefix ==
    /\ ~app.input_mode
    /\ \E index \in 0..(NumPrefixChars - 1) :
          /\ index <= Len(app.cmd)
          /\ Handled("prefix",
                     IF index < Len(app.cmd) THEN select(app, index) ELSE app)

\* Ctrl+Enter, Ctrl+X
KeyExecute == ~app.input_mode /\ Finish("execute", TRUE)

\* 'q', Esc, Ctrl+C
KeyCancel == ~app.input_mode /\ Finish("cancel", FALSE)

\* ---- keys in input mode ----
\* Enter
KeyInputEnter ==
    /\ app.input_mode
    /\ Len(app.undo.undo_stack) < MaxUndo
    /\ Handled("confirm_input", confirm_input(app))

\* Esc
KeyInputEsc == app.input_mode /\ Handled("cancel_input", cancel_input(app))

\* Backspace: current_input.pop()
KeyInputBackspace ==
    /\ app.input_mode
    /\ Handled("backspace",
               IF app.current_input = <<>> THEN app
               ELSE [app EXCEPT !.current_input = Front(app.current_input)])

\* A character key: current_input.push(c)
KeyInputChar ==
    /\ app.input_mode
    /\ Len(app.current_input) < MaxLen
    /\ \E c \in TypeChars :
          Handled("char", [app EXCEPT !.current_input = Append(@, c)])

\* A slip in the input-mode execute arm: the scratch buffer is committed
\* before the session ends.
KeyInputExecute_commitsFirst ==
    /\ app.input_mode
    /\ pc = "running"
    /\ last_key' = "input_execute"
    /\ pc' = "exited"
    /\ app' = confirm_input(app)
    /\ \E teardown \in TeardownOutcomes :
          /\ raw_mode' = (teardown = "disable_failed")
          /\ IF teardown = "ok"
             THEN stdout' = Command_to_string(app'.cmd) /\ exit_code' = ExitSuccess
             ELSE stdout' = NoOutput /\ exit_code' = ExitFailure
    /\ HistoryEnds
    /\ UNCHANGED <<build, command_str, quoteVars, parseVars, textVars>>

\* Ctrl+Enter, Ctrl+X while editing
KeyInputExecute == app.input_mode /\ Finish("input_execute", TRUE)

\* Ctrl+C while editing
KeyInputCtrlC == app.input_mode /\ Finish("input_ctrl_c", FALSE)

SessionInit ==
    /\ pc = "start"
    /\ build \in {"debug", "release"}
    /\ command_str \in InitCommands
    /\ app = NoApp
    /\ stdout = NoOutput
    /\ exit_code = Running
    /\ raw_mode = FALSE
    /\ last_key = "none"
    /\ docs_run = <<>>
    /\ undone = 0
    /\ undo_snaps = <<>>
    /\ redone = 0
    /\ edit_start = NoEdit

QuoteIdle ==
    /\ q_pc = "idle"
    /\ q_s = <<>>
    /\ q_quoted = <<>>
    /\ q_split = [ok |-> TRUE, words |-> <<>>]

ParseIdle ==
    /\ p_pc = "idle"
    /\ p_pieces = <<>>
    /\ p_seps = <<>>
    /\ p_input = <<>>
    /\ p_doc = [ok |-> FALSE, err |-> "none", components |-> <<>>]
    /\ p_result = [ok |-> FALSE, err |-> "none", components |-> <<>>]

\* Nothing was returned.
NoReturn == <<"<none>">>
\* No position was computed.
NoPosition == <<0, 0>>
\* No character was typed.
NoChar == "<none>"

DocIdle ==
    /\ d_pc = "idle"
    /\ d_app = NoApp
    /\ d_before = <<>>
    /\ d_op = "none"
    /\ d_index = 0
    /\ d_value = <<>>
    /\ d_returned = NoReturn

WrapIdle ==
    /\ w_pc = "idle"
    /\ w_content = <<>>
    /\ w_width = 0
    /\ w_text = WrapText_new(<<>>, 0)
    /\ w_index = 0
    /\ w_pos = NoPosition
    /\ w_back = 0

EditorIdle ==
    /\ e_pc = "idle"
    /\ e_build = "release"
    /\ editor = Editor_new
    /\ e_op = "none"
    /\ e_ch = NoChar

HistoryIdle ==
    /\ h_pc = "idle"
    /\ h_base = <<>>
    /\ h_lines = <<>>
    /\ h_matches = <<>>
    /\ h_scanned = <<>>
    /\ h_source = "ok"
    /\ h_result = "none"
    /\ h_values = NoValues

TextIdle == DocIdle /\ WrapIdle /\ EditorIdle /\ HistoryIdle

Init == SessionInit /\ QuoteIdle /\ ParseIdle /\ TextIdle

Next ==
    \/ RunTuiStart
    \/ IoError
    \/ KeyUndo
    \/ KeyRedo
    \/ KeyInsert
    \/ KeyAppend
    \/ KeyDelete
    \/ KeyNext
    \/ KeyPrevious
    \/ KeyStartInput
    \/ KeyPrefix
    \/ KeyExecute
    \/ KeyCancel
    \/ KeyInputEnter
    \/ KeyInputEsc
    \/ KeyInputBackspace
    \/ KeyInputChar
    \/ KeyInputExecute
    \/ KeyInputCtrlC

\* The editing session: run_tui, then one key event after another.
Spec == Init /\ [][Next]_vars

(***************************************************************************)
(* The quoting specification: a string is drawn, quoted, and split again   *)
(***************************************************************************)
\* The characters the strings are drawn from.
QuoteChars == {"a", SP, TAB, NL, CR, NBSP, DQ, SQ, BS, DOLLAR, BT, HASH}

\* The strings over S of length at most n.
StringsUpTo(S, n) == UNION {[1..k -> S] : k \in 0..n}

SessionIdle ==
    /\ pc = "idle"
    /\ build = "release"
    /\ command_str = <<>>
    /\ app = NoApp
    /\ stdout = NoOutput
    /\ exit_code = Running
    /\ raw_mode = FALSE
    /\ last_key = "none"
    /\ docs_run = <<>>
    /\ undone = 0
    /\ undo_snaps = <<>>
    /\ redone = 0
    /\ edit_start = NoEdit

QuoteInit ==
    /\ q_pc = "input"
    /\ q_s \in StringsUpTo(QuoteChars, MaxStrLen)
    /\ q_quoted = <<>>
    /\ q_split = [ok |-> TRUE, words |-> <<>>]

\* quote_if_needed is applied to the string.
Quote ==
    /\ q_pc = "input"
    /\ q_quoted' = quote_if_needed(q_s)
    /\ q_pc' = "quoted"
    /\ UNCHANGED <<q_s, q_split, sessionVars, parseVars, textVars>>

\* The tokenizer's word splitting is applied to the quoted string.
Split ==
    /\ q_pc = "quoted"
    /\ q_split' = ShlexSplit(q_quoted)
    /\ q_pc' = "split"
    /\ UNCHANGED <<q_s, q_quoted, sessionVars, parseVars, textVars>>

QuoteNext == Quote \/ Split

InitQuote == SessionIdle /\ QuoteInit /\ ParseIdle /\ TextIdle

\* quote_if_needed and the tokenizer applied to one drawn string.
SpecQuote == InitQuote /\ [][QuoteNext]_vars

(***************************************************************************)
(* The parsing specification: a raw command is written from pieces and     *)
(* handed to both parsers                                                  *)
(***************************************************************************)
\* Pieces that are one token each when they stand alone between separators.
PlainPieces == { <<"a">>, <<"-", "a", "b">>, <<"-", "a", "=", "b">>,
                 <<"-", "a", "=">>, <<"-", "a", "=", "b", "=", "c">> }
\* The empty piece, a lone single quote, a lone backslash, a lone hash.
OtherPieces == { <<>>, <<SQ>>, <<BS>>, <<HASH>> }
\* The separators: a space, or a line-continuation marker.
Continuation == <<BS, NL>>
Separators == { <<SP>>, Continuation }

RECURSIVE Interleave(_, _)
\* The raw command: the pieces with the separators between them.
Interleave(pieces, seps) ==
    IF pieces = <<>> THEN <<>>
    ELSE IF seps = <<>> THEN Head(pieces)
    ELSE Head(pieces) \o Head(seps) \o Interleave(Tail(pieces), Tail(seps))

ParseInit ==
    /\ p_pc = "input"
    /\ \E n \in 1..MaxPieces :
          /\ p_pieces \in [1..n -> PlainPieces \cup OtherPieces]
          /\ p_seps \in [1..(n - 1) -> Separators]
    /\ p_input = Interleave(p_pieces, p_seps)
    /\ p_doc = [ok |-> FALSE, err |-> "none", components |-> <<>>]
    /\ p_result = [ok |-> FALSE, err |-> "none", components |-> <<>>]

\* Command::try_from is applied to the raw command.
TryFrom ==
    /\ p_pc = "input"
    /\ p_doc' = Command_try_from(p_input)
    /\ p_pc' = "tried"
    /\ UNCHANGED <<p_pieces, p_seps, p_input, p_result, sessionVars, quoteVars, textVars>>

\* parse_command is applied to the raw command.
ParseCommand ==
    /\ p_pc = "tried"
    /\ p_result' = parse_command(p_input)
    /\ p_pc' = "parsed"
    /\ UNCHANGED <<p_pieces, p_seps, p_input, p_doc, sessionVars, quoteVars, textVars>>

ParseNext == TryFrom \/ ParseCommand

InitParse == SessionIdle /\ QuoteIdle /\ ParseInit /\ TextIdle

\* Both parsers applied to one raw command.
SpecParse == InitParse /\ [][ParseNext]_vars

(***************************************************************************)
(* The Document specification: one operation of the Document is applied to *)
(* a drawn Document; an insertion may be followed by the removal at the    *)
(* same index                                                              *)
(***************************************************************************)
\* The components the Documents are made of.
DocValues == { <<"a">>, <<"b">> }

DocInit ==
    /\ d_pc = "ready"
    /\ d_app \in {App_new(cmd) : cmd \in StringsUpTo(DocValues, MaxDocLen)}
    /\ d_before = <<>>
    /\ d_op = "none"
    /\ d_index = 0
    /\ d_value = <<>>
    /\ d_returned = NoReturn

\* What every operation of the Document shares.
DocApplied(op, index, value, a2, returned, next_pc) ==
    /\ d_app' = a2
    /\ d_before' = d_app.cmd
    /\ d_op' = op
    /\ d_index' = index
    /\ d_value' = value
    /\ d_returned' = IF a2.panicked THEN NoReturn ELSE returned
    /\ d_pc' = next_pc
    /\ UNCHANGED <<sessionVars, quoteVars, parseVars, wrapVars, editorVars,
                   historyVars>>

\* Command::remove_component_at is called.
RemoveAt ==
    /\ d_pc = "ready"
    /\ \E index \in 0..MaxDocLen :
          DocApplied("remove", index, <<>>, remove_component_at(d_app, index),
                     remove_component_at_returns(d_app, index), "done")

\* Command::insert_component_at is called.
InsertAt ==
    /\ d_pc = "ready"
    /\ \E index \in 0..(MaxDocLen + 1), value \in DocValues \cup {<<>>} :
          DocApplied("insert", index, value,
                     insert_component_at(d_app, index, value), NoReturn,
                     "inserted")

\* Command::set_value_at is called.
SetValueAt ==
    /\ d_pc = "ready"
    /\ \E index \in 0..MaxDocLen, value \in DocValues :
          DocApplied("set_value", index, value,
                     set_value_at(d_app, index, value),
                     set_value_at_returns(d_app, index), "done")

\* Command::remove_component_at is called at the index of the insertion.
RemoveInserted ==
    /\ d_pc = "inserted"
    /\ ~d_app.panicked
    /\ d_app' = remove_component_at(d_app, d_index)
    /\ d_returned' = remove_component_at_returns(d_app, d_index)
    /\ d_pc' = "round"
    /\ UNCHANGED <<d_before, d_op, d_index, d_value, sessionVars, quoteVars,
                   parseVars, wrapVars, editorVars, historyVars>>

DocNext == RemoveAt \/ InsertAt \/ SetValueAt \/ RemoveInserted

InitDoc ==
    SessionIdle /\ QuoteIdle /\ ParseIdle /\ DocInit /\ WrapIdle /\ EditorIdle
    /\ HistoryIdle

\* The operations of the Document applied to drawn Documents.
SpecDoc == InitDoc /\ [][DocNext]_vars

(***************************************************************************)
(* The wrapping specification: a text is wrapped at a width, then an index *)
(* is turned into a position and back, or a position into an index         *)
(***************************************************************************)
\* The characters the texts are drawn from.
WrapChars == {"a", NL, WIDE, COMB}

\* The columns and rows index_at_position is called with.
Cols == 0..(2 * MaxTextLen)
Rows == 0..(MaxTextLen + 1)

WrapInit ==
    /\ w_pc = "input"
    /\ w_content \in StringsUpTo(WrapChars, MaxTextLen)
    /\ w_width \in 0..MaxWidth
    /\ w_text = WrapText_new(<<>>, 0)
    /\ w_index = 0
    /\ w_pos = NoPosition
    /\ w_back = 0

\* WrapText::new is called.
WrapNew ==
    /\ w_pc = "input"
    /\ w_text' = WrapText_new(w_content, w_width)
    /\ w_pc' = "wrapped"
    /\ UNCHANGED <<w_content, w_width, w_index, w_pos, w_back, sessionVars,
                   quoteVars, parseVars, docVars, editorVars, historyVars>>

\* WrapText::position is called with a character boundary of the text.
Position ==
    /\ w_pc = "wrapped"
    /\ \E index \in 0..ByteLen(w_content) :
          /\ is_char_boundary(w_content, index)
          /\ w_index' = index
          /\ w_pos' = position(w_text, index)
    /\ w_pc' = "positioned"
    /\ UNCHANGED <<w_content, w_width, w_text, w_back, sessionVars, quoteVars,
                   parseVars, docVars, editorVars, historyVars>>

\* WrapText::index_at_position is called with the position just computed.
IndexBack ==
    /\ w_pc = "positioned"
    /\ w_back' = index_at_position(w_text, w_pos)
    /\ w_pc' = "back"
    /\ UNCHANGED <<w_content, w_width, w_text, w_index, w_pos, sessionVars,
                   quoteVars, parseVars, docVars, editorVars, historyVars>>

\* WrapText::index_at_position is called with some column and row.
IndexAt ==
    /\ w_pc = "wrapped"
    /\ \E col \in Cols, row \in Rows :
          /\ w_pos' = <<col, row>>
          /\ w_back' = index_at_position(w_text, <<col, row>>)
    /\ w_pc' = "indexed"
    /\ UNCHANGED <<w_content, w_width, w_text, w_index, sessionVars, quoteVars,
                   parseVars, docVars, editorVars, historyVars>>

WrapNext == WrapNew \/ Position \/ IndexBack \/ IndexAt

InitWrap ==
    SessionIdle /\ QuoteIdle /\ ParseIdle /\ DocIdle /\ WrapInit /\ EditorIdle
    /\ HistoryIdle

\* wrap_text, position and index_at_position applied to drawn texts.
SpecWrap == InitWrap /\ [][WrapNext]_vars

(***************************************************************************)
(* The editor specification: the methods of an Editor called in any order  *)
(***************************************************************************)
\* The characters that are typed.
EditChars == {"a", NL, WIDE}
\* The values an edit starts from (typing and deleting reach every other text).
EditValues == { <<>>, <<"a">>, <<WIDE, NL, "a">> }

EditorInit ==
    /\ e_pc = "running"
    /\ e_build \in {"debug", "release"}
    /\ editor = Editor_new
    /\ e_op = "new"
    /\ e_ch = NoChar

\* What every call of a method shares: the Editor becomes e2, and a panic
\* ends the process.
Called(op, ch, e2) ==
    /\ e_pc = "running"
    /\ editor' = e2
    /\ e_op' = op
    /\ e_ch' = ch
    /\ e_pc' = IF e2.panicked THEN "panicked" ELSE "running"
    /\ UNCHANGED <<e_build, sessionVars, quoteVars, parseVars, docVars, wrapVars,
                   historyVars>>

StartInput ==
    \E value \in EditValues :
        Called("start_input", NoChar, Editor_start_input(editor, value))

EndInput == Called("end_input", NoChar, end_input(editor))

CancelInput == Called("cancel_input", NoChar, Editor_cancel_input(editor))

SetContentWidth ==
    \E width \in 0..MaxWidth :
        Called("set_content_width", NoChar, set_content_width(editor, width))

MoveCursorUp == Called("move_cursor_up", NoChar, move_cursor_up(editor, e_build))

MoveCursorDown == Called("move_cursor_down", NoChar, move_cursor_down(editor))

MoveCursorLeft == Called("move_cursor_left", NoChar, move_cursor_left(editor))

MoveCursorRight == Called("move_cursor_right", NoChar, move_cursor_right(editor))

DeleteForward == Called("delete_forward", NoChar, delete_forward(editor))

DeleteBackward == Called("delete_backward", NoChar, delete_backward(editor))

\* input_char, while the buffer is shorter than the model's longest text.
InputChar ==
    /\ Len(editor.content.content) < MaxTextLen
    /\ \E c \in EditChars : Called("input_char", c, input_char(editor, c))

EditorNext ==
    \/ StartInput
    \/ EndInput
    \/ CancelInput
    \/ SetContentWidth
    \/ MoveCursorUp
    \/ MoveCursorDown
    \/ MoveCursorLeft
    \/ MoveCursorRight
    \/ DeleteForward
    \/ DeleteBackward
    \/ InputChar

InitEditor ==
    SessionIdle /\ QuoteIdle /\ ParseIdle /\ DocIdle /\ WrapIdle /\ EditorInit
    /\ HistoryIdle

\* An Editor and the calls of its methods.
SpecEditor == InitEditor /\ [][EditorNext]_vars

(***************************************************************************)
(* The history specification: the commands of a drawn history are matched  *)
(* against drawn Base words and scanned                                    *)
(***************************************************************************)
\* The words of the Base and of the history's commands.
WordA == <<"a">>
WordB == <<"b">>
\* The commands a history is drawn from: plain words, a flag, a quoted
\* word, a word longer than the Base word, an unclosed quote.
HistoryCommands ==
    { WordA,
      WordB,
      <<"a", SP, "b">>,
      <<"b", SP, "a">>,
      <<"a", SP, "b", SP, "-", "f">>,
      <<SQ, "a", SQ, SP, "b">>,
      <<"a", "b">>,
      <<"a", SP, SP, "b", SP, "a">>,
      <<"a", SP, "b", SP, SQ>>,
      <<"a", SP, "-", "f", SP, "b">>,
      <<"a", SP, "-", "f", SP, "a">>,
      <<"b", SP, "-", "f", SP, "a", "b">>,
      <<"a", SP, "-", "g", "=", "b", SP, "a">> }

\* What the history source is like: HOME is not set, the file does not
\* exist, it exists but cannot be opened, every read of it fails, or it is
\* read (lines that cannot be decoded are left out of the commands).
HistorySources == {"no_home", "missing", "open_fails", "read_fails", "ok"}

HistoryInit ==
    /\ h_pc = "input"
    /\ h_base \in StringsUpTo({WordA, WordB}, MaxBase)
    /\ h_source \in HistorySources
    /\ h_lines \in (IF h_source = "ok" THEN StringsUpTo(HistoryCommands, MaxHistory)
                    ELSE {<<>>})
    /\ h_matches = <<>>
    /\ h_scanned = <<>>
    /\ h_result = "none"
    /\ h_values = NoValues

\* matches_base_command is called with every command of the history.
Match ==
    /\ h_pc = "input"
    /\ h_matches' = [k \in DOMAIN h_lines |->
                        matches_base_command(h_lines[k], h_base)]
    /\ h_pc' = "matched"
    /\ UNCHANGED <<h_base, h_lines, h_scanned, h_source, h_result, h_values,
                   sessionVars, quoteVars, parseVars, docVars, wrapVars, editorVars>>

\* load_history_for_command is called.
Load ==
    /\ h_pc = "matched"
    /\ LET outcome == load_history_for_command(h_source, h_lines, h_base)
       IN  /\ h_result' = outcome.result
           /\ h_scanned' = outcome.scanned
           /\ h_values' = outcome.values
           /\ h_pc' = IF outcome.result = "never" THEN "reading" ELSE "loaded"
    /\ UNCHANGED <<h_base, h_lines, h_matches, h_source, sessionVars, quoteVars,
                   parseVars, docVars, wrapVars, editorVars>>

HistoryNext == Match \/ Load

InitHistory ==
    SessionIdle /\ QuoteIdle /\ ParseIdle /\ DocIdle /\ WrapIdle /\ EditorIdle
    /\ HistoryInit

\* The history's commands matched against the Base words.
SpecHistory == InitHistory /\ [][HistoryNext]_vars

(***************************************************************************)
(* Properties                                                              *)
(***************************************************************************)
\* C1: after a run of fresh edits (insert, append, delete, confirmed edit)
\* with no undo in between, k undos leave the Document equal to the Document
\* k edits back; n undos after n edits give the Document before the first.
C1_UndoRestoresRun ==
    undone >= 1 => app.cmd = docs_run[Len(docs_run) - undone]

\* C1 witness: two fresh edits that changed the Document, both undone.
C1_Witness ==
    /\ last_key = "undo"
    /\ Len(docs_run) >= 3
    /\ undone = Len(docs_run) - 1
    /\ docs_run[1] # docs_run[2]
    /\ docs_run[2] # docs_run[3]

\* C2: after a streak of undos, k redos leave the Document, the length of
\* the undo stack and the length of the redo stack as they were before the
\* k-th last undo; as many redos as undos give the state before the first.
C2_RedoReplaysUndos ==
    redone >= 1 => Sizes(app) = undo_snaps[Len(undo_snaps) - redone + 1]

\* C2 witness: two undos that changed the Document, both redone.
C2_Witness ==
    /\ last_key = "redo"
    /\ Len(undo_snaps) >= 2
    /\ redone = Len(undo_snaps)
    /\ undo_snaps[1].cmd # undo_snaps[2].cmd

\* C3: splitting quote_if_needed(s) gives exactly one word, and it is s.
C3_QuoteRoundTrip ==
    q_pc = "split" => q_split = [ok |-> TRUE, words |-> <<q_s>>]

\* C4: parsing to_shell_string() of a Document reached by editing succeeds
\* and gives the Document's component strings, in order.
C4_DocumentRoundTrip ==
    pc = "running" =>
        LET r == Command_try_from(to_shell_string(app.cmd))
        IN  r.ok /\ r.components = app.cmd

\* C5: a fresh edit that pushes an action leaves the redo stack empty, so a
\* redo right after it changes nothing; undo only adds to the redo stack and
\* redo only takes its top away.
C5_FreshEditClearsRedo ==
    [][ /\ ActedFresh(last_key', app, app') =>
            /\ app'.undo.redo_stack = <<>>
            /\ App_redo(app') = app'
        /\ ActedUndo(last_key', app, app') =>
            Front(app'.undo.redo_stack) = app.undo.redo_stack
        /\ ActedRedo(last_key', app, app') =>
            app'.undo.redo_stack = Front(app.undo.redo_stack)
      ]_vars

\* C5 witness: a fresh edit has pushed an action.
C5_Witness ==
    /\ last_key \in FreshKeys
    /\ pc = "running"
    /\ Len(app.undo.undo_stack) >= 2
    /\ app.undo.redo_stack = <<>>

\* C6: redo with a non-empty redo stack moves exactly its top action to the
\* undo stack, undo with a non-empty undo stack moves exactly its top action
\* to the redo stack; the two lengths keep their sum.
C6_UndoRedoMoveOneAction ==
    [][ /\ (last_key' = "redo" /\ app.undo.redo_stack # <<>>) =>
            /\ app'.undo.redo_stack = Front(app.undo.redo_stack)
            /\ app'.undo.undo_stack =
                  Append(app.undo.undo_stack, Last(app.undo.redo_stack))
        /\ (last_key' = "undo" /\ app.undo.undo_stack # <<>>) =>
            /\ app'.undo.undo_stack = Front(app.undo.undo_stack)
            /\ app'.undo.redo_stack =
                  Append(app.undo.redo_stack, Last(app.undo.undo_stack))
        /\ last_key' \in {"undo", "redo"} =>
            Len(app'.undo.undo_stack) + Len(app'.undo.redo_stack)
              = Len(app.undo.undo_stack) + Len(app.undo.redo_stack)
      ]_vars

\* C6 witness: a redo has moved an action and left another on the redo stack.
C6_Witness ==
    /\ last_key = "redo"
    /\ redone >= 1
    /\ app.undo.undo_stack # <<>>
    /\ app.undo.redo_stack # <<>>

\* C7: undo with an empty undo stack and redo with an empty redo stack
\* change nothing of the App and raise no error.
C7_EmptyStackNoOp ==
    [][ /\ (last_key' = "undo" /\ app.undo.undo_stack = <<>>) =>
            app' = app /\ pc' = "running" /\ exit_code' = Running
        /\ (last_key' = "redo" /\ app.undo.redo_stack = <<>>) =>
            app' = app /\ pc' = "running" /\ exit_code' = Running
      ]_vars

\* C7 witness: an undo that found both stacks empty (an undo that pops
\* leaves an action on the redo stack).
C7_Witness ==
    /\ last_key = "undo"
    /\ pc = "running"
    /\ app.undo = Undo_new

\* C8: confirm_input with component i selected writes the scratch buffer
\* into component i only, keeps the count, pushes exactly one Edit with the
\* value before and the buffer, and leaves editing mode with an empty buffer.
C8_ConfirmCommitsOneEdit ==
    [][ (last_key' = "confirm_input" /\ app.selected # None) =>
            LET i == app.selected
            IN  /\ ~app'.panicked
                /\ Len(app'.cmd) = Len(app.cmd)
                /\ app'.cmd[i + 1] = app.current_input
                /\ \A k \in DOMAIN app.cmd : k # i + 1 => app'.cmd[k] = app.cmd[k]
                /\ app'.undo.undo_stack =
                      Append(app.undo.undo_stack,
                             EditAction(i, app.cmd[i + 1], app.current_input))
                /\ ~app'.input_mode
                /\ app'.current_input = <<>>
      ]_vars

\* C8 witness: a confirmed edit that changed the value of a component.
C8_Witness ==
    /\ last_key = "confirm_input"
    /\ app.undo.undo_stack # <<>>
    /\ Last(app.undo.undo_stack).type = "Edit"
    /\ Last(app.undo.undo_stack).original_value
         # Last(app.undo.undo_stack).updated_value
    /\ Len(app.cmd) >= 2

\* C9: while an edit session lasts, and when cancel_input has ended it, the
\* Document, the selection and both stacks are as they were when the session
\* started; after cancel_input editing mode is off and the buffer is empty.
C9_CancelChangesNothing ==
    /\ (pc = "running" /\ app.input_mode) => Snap(app) = edit_start.snap
    /\ last_key = "cancel_input" =>
          /\ Snap(app) = edit_start.snap
          /\ ~app.input_mode
          /\ app.current_input = <<>>

\* C9 witness: an edit session with keystrokes, cancelled, on an App with
\* an action to undo.
C9_Witness ==
    /\ last_key = "cancel_input"
    /\ edit_start.typed
    /\ app.undo.undo_stack # <<>>

\* C10: a command is printed only when the session ended with execute, and
\* it is then the serialization of the Document; a session ended with cancel
\* prints nothing and exits with a non-zero status.
C10_CommandOnlyOnExecute ==
    /\ stdout # NoOutput =>
          /\ pc = "exited"
          /\ last_key \in {"execute", "input_execute"}
          /\ stdout = to_shell_string(app.cmd)
    /\ (last_key \in {"execute", "input_execute"} /\ exit_code = ExitSuccess) =>
          /\ pc = "exited"
          /\ stdout = to_shell_string(app.cmd)
    /\ last_key \in {"cancel", "input_ctrl_c"} =>
          /\ pc = "exited"
          /\ stdout = NoOutput
          /\ exit_code # ExitSuccess

\* C10 witness: an edited Document has been printed.
C10_Witness ==
    /\ last_key = "execute"
    /\ stdout # NoOutput
    /\ app.undo.undo_stack # <<>>
    /\ exit_code = ExitSuccess

\* C11: when parsing the raw command fails (unbalanced quoting or an empty
\* command), run_tui's step ends the process with an error and the terminal
\* not raw, no App created and no key handled; and nothing of it ever
\* happens afterwards.
C11_ParseErrorBeforeSession ==
    [][ ~Command_try_from(command_str).ok =>
            /\ pc' = "exited"
            /\ exit_code' = ExitFailure
            /\ raw_mode' = FALSE
            /\ app' = NoApp
            /\ last_key' = "none"
            /\ stdout' = NoOutput
      ]_vars

\* C11 witness: run_tui has returned the error of a command that does not
\* parse.
C11_Witness ==
    /\ pc = "exited"
    /\ ~Command_try_from(command_str).ok
    /\ Command_try_from(command_str).err = "parse"

\* The characters the claim C12 lists as triggering quoting.
ListedTriggers == {SP, TAB, NL, CR, DQ, SQ, BS}

\* s begins and ends with the same quote character.
WrappedInQuotes(s, quoted) ==
    /\ Len(quoted) >= Len(s) + 2
    /\ quoted[1] \in {SQ, DQ}
    /\ quoted[Len(quoted)] = quoted[1]

\* C12 as stated: quote_if_needed(s) is s exactly when s holds none of
\* space, tab, newline, carriage return, double quote, single quote and
\* backslash (other Unicode whitespace does not count); otherwise it is
\* wrapped in quotes.
C12_QuotingTriggers ==
    q_pc = "quoted" =>
        IF \E k \in DOMAIN q_s : q_s[k] \in ListedTriggers
        THEN WrappedInQuotes(q_s, q_quoted)
        ELSE q_quoted = q_s

\* C12 amended: quote_if_needed(s) is s exactly when s holds no whitespace
\* character (any character with the Unicode White_Space property) and none
\* of double quote, single quote and backslash; otherwise it is wrapped in
\* quotes. No other character triggers quoting.
C12_QuotingTriggersAmended ==
    q_pc = "quoted" =>
        IF \E k \in DOMAIN q_s : IsWhitespace(q_s[k]) \/ q_s[k] \in {DQ, SQ, BS}
        THEN WrappedInQuotes(q_s, q_quoted) /\ q_quoted # q_s
        ELSE q_quoted = q_s

\* C12 witness: a string quoted only because of a whitespace character that
\* is none of space, tab, newline and carriage return.
C12_Witness ==
    /\ q_pc = "quoted"
    /\ \E k \in DOMAIN q_s : q_s[k] = NBSP
    /\ \A k \in DOMAIN q_s : q_s[k] \notin ListedTriggers
    /\ q_quoted # q_s

RECURSIVE ReplaceChar(_, _, _)
\* s with every occurrence of character c replaced by the string with.
ReplaceChar(s, c, with) ==
    IF s = <<>> THEN <<>>
    ELSE (IF Head(s) = c THEN with ELSE <<Head(s)>>) \o ReplaceChar(Tail(s), c, with)

\* C13: a string that gets quoted becomes, with strictly more double than
\* single quotes, s between single quotes with each single quote replaced
\* by the four characters quote, backslash, quote, quote; otherwise s
\* between double quotes with each backslash doubled and each double quote
\* given a backslash. Dollar and backtick get no backslash in either style.
C13_QuoteStyles ==
    (q_pc = "quoted" /\ q_quoted # q_s) =>
        /\ IF CountChar(q_s, DQ) > CountChar(q_s, SQ)
           THEN q_quoted = <<SQ>> \o ReplaceChar(q_s, SQ, <<SQ, BS, SQ, SQ>>) \o <<SQ>>
           ELSE q_quoted = <<DQ>> \o ReplaceChar(ReplaceChar(q_s, BS, <<BS, BS>>),
                                                 DQ, <<BS, DQ>>) \o <<DQ>>
        /\ \A k \in 2..Len(q_quoted) :
              (q_quoted[k] \in {DOLLAR, BT} /\ q_quoted[k - 1] = BS) =>
                  \E j \in 2..Len(q_s) : q_s[j] = q_quoted[k] /\ q_s[j - 1] = BS

\* C13 witness: the single-quote style applied to a string that holds a
\* single quote.
C13_Witness ==
    /\ q_pc = "quoted"
    /\ q_quoted # q_s
    /\ CountChar(q_s, DQ) > CountChar(q_s, SQ)
    /\ CountChar(q_s, SQ) >= 1

\* ---- the parsing specification: what the claims say of a raw command ----
\* Every piece of the raw command is one token.
PlainInput == \A k \in DOMAIN p_pieces : p_pieces[k] \in PlainPieces
\* The token begins with a dash / holds an equals sign.
Dash(token) == token[1] = "-"
HasEq(token) == \E i \in DOMAIN token : token[i] = "="
\* The position of the first equals sign of a token that has one.
FirstEq(token) ==
    CHOOSE i \in DOMAIN token :
        token[i] = "=" /\ \A j \in 1..(i - 1) : token[j] # "="
\* The number of components before the first component of token k: one per
\* earlier token, one more per earlier dash token with an equals sign, and
\* one LineBreak per earlier line-continuation marker.
Off(k) ==
    (k - 1)
    + Cardinality({j \in 1..(k - 1) : Dash(p_pieces[j]) /\ HasEq(p_pieces[j])})
    + Cardinality({j \in 1..(k - 1) : p_seps[j] = Continuation})
\* The first component parse_command made of token k.
Comp(k) == p_result.components[Off(k) + 1]
\* The text of the first component a token gives.
OwnText(token) ==
    IF Dash(token) /\ HasEq(token) THEN SubSeq(token, 1, FirstEq(token) - 1)
    ELSE token

\* C14: a token is classified Base exactly when no token starting with a
\* dash stands at or before it in the whole command, continuation lines
\* included.
C14_BaseBeforeFirstDash ==
    (p_pc = "parsed" /\ PlainInput) =>
        /\ p_result.ok
        /\ \A k \in DOMAIN p_pieces :
              (Comp(k).kind = "Base") <=> (\A j \in 1..k : ~Dash(p_pieces[j]))

\* C15: a token that starts with a dash and holds an equals sign gives
\* exactly a Flag with the text before the first equals sign and a Value
\* with all the text after it; the token after it gives its own component.
C15_FlagEqualsValue ==
    (p_pc = "parsed" /\ PlainInput) =>
        /\ p_result.ok
        /\ \A k \in DOMAIN p_pieces :
              LET token == p_pieces[k] IN
              (Dash(token) /\ HasEq(token)) =>
                  /\ Comp(k) = Flag(SubSeq(token, 1, FirstEq(token) - 1))
                  /\ p_result.components[Off(k) + 2]
                        = Value(SubSeq(token, FirstEq(token) + 1, Len(token)))
                  /\ IF k = Len(p_pieces)
                     THEN Len(p_result.components) = Off(k) + 2
                     ELSE /\ Comp(k + 1).kind # "LineBreak"
                          /\ Comp(k + 1).text = OwnText(p_pieces[k + 1])

\* C15 witness: a token with two equals signs, followed by another token,
\* has been parsed.
C15_Witness ==
    /\ p_pc = "parsed"
    /\ PlainInput
    /\ \E k \in 1..(Len(p_pieces) - 1) :
          /\ p_pieces[k] = <<"-", "a", "=", "b", "=", "c">>
          /\ ~Dash(p_pieces[k + 1])

\* C16: a token that starts with a dash and holds no equals sign gives one
\* Flag with the whole token; a next token that does not start with a dash
\* is that Flag's Value; a token without a dash that is not taken this way
\* and stands after a dash token is a positional Value.
C16_FlagAndItsValue ==
    (p_pc = "parsed" /\ PlainInput) =>
        /\ p_result.ok
        /\ \A k \in DOMAIN p_pieces :
              LET token == p_pieces[k] IN
              /\ (Dash(token) /\ ~HasEq(token)) =>
                    /\ Comp(k) = Flag(token)
                    /\ (k < Len(p_pieces) /\ ~Dash(p_pieces[k + 1])) =>
                          Comp(k + 1) = Value(p_pieces[k + 1])
              /\ (/\ ~Dash(token)
                  /\ \E j \in 1..(k - 1) : Dash(p_pieces[j])
                  /\ ~(Dash(p_pieces[k - 1]) /\ ~HasEq(p_pieces[k - 1]))) =>
                    Comp(k) = Value(token)

\* Every piece of the raw command is one token or empty.
PlainOrEmptyInput ==
    \A k \in DOMAIN p_pieces : p_pieces[k] \in PlainPieces \cup {<<>>}
\* The tokens of such a raw command.
Tokens == SelectSeq(p_pieces, LAMBDA piece : piece # <<>>)
\* The components that are not LineBreaks.
Words(components) == SelectSeq(components, LAMBDA c : c.kind # "LineBreak")

\* C17: empty segments give no component, and a raw command without any
\* token fails with the empty-command error, in both parsers.
C17_EmptySegmentsDropped ==
    (p_pc = "parsed" /\ PlainOrEmptyInput) =>
        IF Tokens = <<>>
        THEN /\ ~p_doc.ok /\ p_doc.err = "empty"
             /\ ~p_result.ok /\ p_result.err = "empty"
        ELSE /\ p_doc.ok /\ p_doc.components = Tokens
             /\ p_result.ok
             /\ Len(Words(p_result.components))
                  = Len(Tokens)
                    + Cardinality({k \in DOMAIN p_pieces :
                                     /\ p_pieces[k] # <<>>
                                     /\ Dash(p_pieces[k]) /\ HasEq(p_pieces[k])})

RECURSIVE QuoteScan(_, _, _)
\* The quoting state ("n" outside quotes, "s" in single, "d" in double
\* quotes) at the end of s, read from position i: a backslash outside
\* single quotes takes the next character with it.
QuoteScan(s, i, state) ==
    IF i > Len(s) THEN state
    ELSE IF state = "s" THEN QuoteScan(s, i + 1, IF s[i] = SQ THEN "n" ELSE "s")
    ELSE IF s[i] = BS THEN QuoteScan(s, i + 2, state)
    ELSE IF state = "d" THEN QuoteScan(s, i + 1, IF s[i] = DQ THEN "n" ELSE "d")
    ELSE QuoteScan(s, i + 1, IF s[i] = SQ THEN "s" ELSE IF s[i] = DQ THEN "d" ELSE "n")

\* The segment's quotes are balanced.
QuotesBalanced(segment) == QuoteScan(Trim(segment), 1, "n") = "n"

RECURSIVE WellFormedFrom(_, _, _, _)
\* As QuoteScan, but a hash at the start of a word opens a comment that
\* runs to the end of the line, and a backslash with nothing after it is
\* an error.
WellFormedFrom(s, i, state, word_start) ==
    IF i > Len(s) THEN state = "n"
    ELSE IF state = "s"
         THEN WellFormedFrom(s, i + 1, IF s[i] = SQ THEN "n" ELSE "s", FALSE)
    ELSE IF s[i] = BS
         THEN i + 1 <= Len(s) /\ WellFormedFrom(s, i + 2, state, FALSE)
    ELSE IF state = "d"
         THEN WellFormedFrom(s, i + 1, IF s[i] = DQ THEN "n" ELSE "d", FALSE)
    ELSE IF s[i] = HASH /\ word_start
         THEN IF \E j \in i..Len(s) : s[j] = NL
              THEN WellFormedFrom(s, 1 + CHOOSE j \in i..Len(s) :
                                        s[j] = NL /\ \A h \in i..(j - 1) : s[h] # NL,
                                  "n", TRUE)
              ELSE TRUE
    ELSE WellFormedFrom(s, i + 1,
                        IF s[i] = SQ THEN "s" ELSE IF s[i] = DQ THEN "d" ELSE "n",
                        s[i] \in {SP, TAB, NL})

\* The segment has no quote left open outside a comment and no backslash
\* with nothing after it.
WellFormed(segment) == WellFormedFrom(Trim(segment), 1, "n", TRUE)

\* The line-continuation segments of the raw command.
Segments == SplitContinuations(p_input, <<>>)
\* The parser failed with a parse error and returned no component.
ParseError(r) == ~r.ok /\ r.err = "parse" /\ r.components = <<>>

C19_DeleteSelected ==
    [][ last_key' = "delete" =>
          IF app.selected = None
          THEN app' = app
          ELSE app.selected < Len(app.cmd) =>
                 LET s == app.selected
                     count == Len(app.cmd)
                 IN  /\ ~app'.panicked
                     /\ Len(app'.cmd) = count - 1
                     /\ \A k \in 1..s : app'.cmd[k] = app.cmd[k]
                     /\ \A k \in (s + 1)..(count - 1) : app'.cmd[k] = app.cmd[k + 1]
                     /\ app'.undo.undo_stack =
                           Append(app.undo.undo_stack,
                                  DeleteAction(s, app.cmd[s + 1]))
                     /\ app'.selected =
                           IF count = 1 THEN None
                           ELSE IF s = count - 1 THEN count - 2
                           ELSE s
      ]_vars

\* C19 witness: the last component of a Document of two was deleted and the
\* selection moved to the new last index.
C19_Witness ==
    /\ last_key = "delete"
    /\ app.undo.undo_stack # <<>>
    /\ Last(app.undo.undo_stack).type = "Delete"
    /\ app.selected # None
    /\ Last(app.undo.undo_stack).position = app.selected + 1
    /\ Len(app.cmd) = app.selected + 1

\* C20: insert_new_component puts one empty component at the selected index
\* (0 with no selection), append_new_component at the index after it (at
\* count with no selection); the count grows by one, the components from
\* that index on move right by one, the selection is that index, and
\* exactly one Insert of that index is pushed.
C20_InsertAndAppend ==
    [][ (/\ last_key' \in {"insert", "append"}
         /\ (app.selected = None \/ app.selected < Len(app.cmd))) =>
          LET count == Len(app.cmd)
              at == IF last_key' = "insert"
                    THEN (IF app.selected = None THEN 0 ELSE app.selected)
                    ELSE (IF app.selected = None THEN count ELSE app.selected + 1)
          IN  /\ ~app'.panicked
              /\ Len(app'.cmd) = count + 1
              /\ app'.cmd[at + 1] = <<>>
              /\ \A k \in 1..at : app'.cmd[k] = app.cmd[k]
              /\ \A k \in (at + 1)..count : app'.cmd[k + 1] = app.cmd[k]
              /\ app'.selected = at
              /\ app'.undo.undo_stack =
                    Append(app.undo.undo_stack, InsertAction(at, <<>>))
      ]_vars

\* C20 witness: a component was appended between two others.
C20_Witness ==
    /\ last_key = "append"
    /\ app.selected = 1
    /\ Len(app.cmd) = 3
    /\ Last(app.undo.undo_stack).type = "Insert"
    /\ Last(app.undo.undo_stack).position = 1

\* ---- C21 ----
\* The Document is a dense sequence: remove_component_at(i) with i < count
\* returns the component that was at i, lowers the count by one and moves
\* the components after i left by one; insert_component_at(i, c) with
\* i <= count raises the count by one, puts c at i and moves the components
\* from i on right by one; set_value_at(i, v) returns the previous value and
\* changes component i only; insert_component_at(i, c) followed by
\* remove_component_at(i) returns c and restores the Document.
C21_DenseDocument ==
    LET before == d_before
        after == d_app.cmd
        i == d_index
        count == Len(d_before)
    IN  /\ DOMAIN after = 1..Len(after)
        /\ (d_op = "remove" /\ d_pc = "done" /\ i < count) =>
              /\ ~d_app.panicked
              /\ d_returned = before[i + 1]
              /\ Len(after) = count - 1
              /\ \A k \in 1..i : after[k] = before[k]
              /\ \A k \in (i + 1)..(count - 1) : after[k] = before[k + 1]
        /\ (d_op = "insert" /\ d_pc = "inserted" /\ i <= count) =>
              /\ ~d_app.panicked
              /\ Len(after) = count + 1
              /\ after[i + 1] = d_value
              /\ \A k \in 1..i : after[k] = before[k]
              /\ \A k \in (i + 1)..count : after[k + 1] = before[k]
        /\ (d_op = "set_value" /\ d_pc = "done" /\ i < count) =>
              /\ ~d_app.panicked
              /\ d_returned = before[i + 1]
              /\ Len(after) = count
              /\ after[i + 1] = d_value
              /\ \A k \in 1..count : k # i + 1 => after[k] = before[k]
        /\ d_pc = "round" =>
              /\ ~d_app.panicked
              /\ d_returned = d_value
              /\ after = before

\* C21 witness: a component was inserted before the last one of two others
\* and removed again.
C21_Witness ==
    /\ d_pc = "round"
    /\ Len(d_before) = 2
    /\ d_index = 1
    /\ d_before[1] # d_before[2]
    /\ d_value # d_before[2]

\* ---- C22 ----
\* For every text, every width and every character boundary i of the text,
\* index_at_position(position(i)) = i.
C22_PositionRoundTrip ==
    w_pc = "back" => w_back = w_index

\* The text has no character of display width 0.
NoZeroWidth(text) == \A k \in DOMAIN text : CharWidth(text[k]) > 0

\* C22 as amended: for every text without zero-width characters, every
\* width and every character boundary i of the text,
\* index_at_position(position(i)) = i, also on a soft-wrap boundary, just
\* after a newline and at the end of a text that ends with a newline.
C22_PositionRoundTripAmended ==
    (w_pc = "back" /\ NoZeroWidth(w_content)) => w_back = w_index

\* C22 witness: the round trip of the index on a soft-wrap boundary, in a
\* text that also ends with a newline.
C22_Witness ==
    /\ w_pc = "back"
    /\ w_content = <<"a", WIDE, NL>>
    /\ w_width = 2
    /\ w_index = 1
    /\ w_pos = <<1, 0>>
    /\ Len(w_text.lines) = 2

\* ---- C23 ----
\* For a width above 0 no line's content holds a newline character, and a
\* text with k newline characters (a trailing one included) is wrapped
\* into at least k + 1 lines.
C23_NewlinesBreakLines ==
    (w_pc = "wrapped" /\ w_width > 0) =>
        /\ \A n \in DOMAIN w_text.lines :
              CountChar(w_text.lines[n].content, NL) = 0
        /\ Len(w_text.lines) >= CountChar(w_content, NL) + 1

\* ---- C24 ----
\* For a width above 0 every line is at most width columns wide unless it
\* is a single character wider than width, and a soft break (a line that
\* starts where the previous one ends, no newline between them) stands
\* before a character only if the previous line is non-empty and that
\* character would have made it wider than width.
C24_LinesFitGreedily ==
    (w_pc = "wrapped" /\ w_width > 0) =>
        /\ \A n \in DOMAIN w_text.lines :
              LET content == w_text.lines[n].content
              IN  \/ DisplayWidth(content) <= w_width
                  \/ Len(content) = 1 /\ CharWidth(content[1]) > w_width
        /\ \A n \in 1..(Len(w_text.lines) - 1) :
              LET line == w_text.lines[n]
                  next == w_text.lines[n + 1]
              IN  next.start_index = line.end_index =>
                     /\ line.content # <<>>
                     /\ next.content # <<>>
                     /\ DisplayWidth(line.content) + CharWidth(next.content[1])
                           > w_width

\* C24 witness: a wide character alone on a line of width 1, between soft
\* breaks.
C24_Witness ==
    /\ w_pc = "wrapped"
    /\ w_width = 1
    /\ w_content = <<"a", WIDE, "a">>
    /\ Len(w_text.lines) = 3
    /\ w_text.lines[2].content = <<WIDE>>

\* ---- C25 ----
\* The number of the first character of content whose column span holds
\* col (the columns before it are at most col, those through it exceed col).
SpanHolding(content, col) ==
    CHOOSE k \in DOMAIN content :
        /\ DisplayWidth(SubSeq(content, 1, k - 1)) <= col
        /\ DisplayWidth(SubSeq(content, 1, k)) > col

\* index_at_position([col, row]) for a row of the line table is the start
\* offset of the character of that line whose column span holds col (the
\* start of a wide character when col falls inside it), and the end of the
\* line's content when col is at or beyond the line's display width.
C25_IndexRoundsDown ==
    (w_pc = "indexed" /\ w_pos[2] < Len(w_text.lines)) =>
        LET line == w_text.lines[w_pos[2] + 1]
            col == w_pos[1]
        IN  IF col >= DisplayWidth(line.content)
            THEN w_back = line.start_index + ByteLen(line.content)
            ELSE w_back = line.start_index +
                    ByteLen(SubSeq(line.content, 1,
                                   SpanHolding(line.content, col) - 1))

\* ---- C26 ----
\* index_at_position clamps the row: with a row at or beyond the number of
\* lines it returns what it returns for the last line and the same column.
C26_RowIsClamped ==
    (w_pc = "indexed" /\ w_pos[2] >= Len(w_text.lines)) =>
        w_back = index_at_position(w_text, <<w_pos[1], Len(w_text.lines) - 1>>)

\* ---- C27 ----
\* The cursor of e is within the buffer and on a character boundary.
CursorValid(e) ==
    /\ 0 <= e.cursor_index
    /\ e.cursor_index <= ByteLen(e.content.content)
    /\ is_char_boundary(e.content.content, e.cursor_index)

\* Before and after every call of a method of the Editor the cursor is
\* within the buffer and on a character boundary; move_cursor_left and
\* move_cursor_right leave the buffer alone and move the cursor by exactly
\* one character, or not at all at the buffer's start resp. end.
C27_CursorOnBoundary ==
    [][ /\ CursorValid(editor)
        /\ CursorValid(editor')
        /\ e_op' = "move_cursor_left" =>
              /\ editor'.content = editor.content
              /\ ~editor'.panicked
              /\ IF editor.cursor_index = 0 THEN editor'.cursor_index = 0
                 ELSE CharsBefore(editor.content.content, editor'.cursor_index)
                         = CharsBefore(editor.content.content, editor.cursor_index) - 1
        /\ e_op' = "move_cursor_right" =>
              /\ editor'.content = editor.content
              /\ ~editor'.panicked
              /\ IF editor.cursor_index = ByteLen(editor.content.content)
                 THEN editor'.cursor_index = editor.cursor_index
                 ELSE CharsBefore(editor.content.content, editor'.cursor_index)
                         = CharsBefore(editor.content.content, editor.cursor_index) + 1
      ]_vars

\* C27 witness: move_cursor_left has stepped back over a three-byte
\* character.
C27_Witness ==
    /\ e_op = "move_cursor_left"
    /\ editor.content.content = <<"a", WIDE>>
    /\ editor.cursor_index = 1
    /\ ~editor.panicked

\* ---- C28 ----
\* The smaller of two numbers.
Min(a, b) == IF a <= b THEN a ELSE b

\* The display width of row r of the Editor's line table.
RowWidth(e, r) == DisplayWidth(e.content.lines[r + 1].content)

\* move_cursor_down from row r (not the last) and column c leaves the
\* cursor, as cursor_position reports it, on row r + 1 at column c or at
\* the end of that row if it is narrower; move_cursor_up from row r > 0
\* leaves it on row r - 1 likewise.
C28_UpDownKeepColumn ==
    [][ LET p == cursor_position(editor)
            c == p[1]
            r == p[2]
        IN  /\ (e_op' = "move_cursor_down" /\ r + 1 < Len(editor.content.lines)) =>
                  /\ ~editor'.panicked
                  /\ cursor_position(editor') = <<Min(c, RowWidth(editor, r + 1)), r + 1>>
            /\ (e_op' = "move_cursor_up" /\ r > 0 /\ r < Len(editor.content.lines)) =>
                  /\ ~editor'.panicked
                  /\ cursor_position(editor') = <<Min(c, RowWidth(editor, r - 1)), r - 1>>
      ]_vars

\* ---- C29 ----
\* text without its k-th character.
WithoutChar(text, k) == SubSeq(text, 1, k - 1) \o SubSeq(text, k + 1, Len(text))

\* input_char(ch) puts ch into the buffer at the cursor and advances the
\* cursor by ch's byte length; delete_forward removes the one character at
\* the cursor and keeps the cursor (nothing changes at the buffer's end);
\* delete_backward removes the one character before the cursor and moves
\* the cursor to where it started (nothing changes at index 0); so
\* delete_backward after input_char(ch) restores buffer and cursor.
C29_TypeAndDelete ==
    [][ LET text == editor.content.content
            cursor == editor.cursor_index
            k == CharsBefore(text, cursor)
            text2 == editor'.content.content
        IN  /\ e_op' = "input_char" =>
                  /\ ~editor'.panicked
                  /\ text2 = SubSeq(text, 1, k) \o <<e_ch'>> \o SubSeq(text, k + 1, Len(text))
                  /\ editor'.cursor_index = cursor + len_utf8(e_ch')
                  /\ delete_backward(editor').content.content = text
                  /\ delete_backward(editor').cursor_index = cursor
            /\ e_op' = "delete_forward" =>
                  /\ ~editor'.panicked
                  /\ editor'.cursor_index = cursor
                  /\ text2 = IF k = Len(text) THEN text ELSE WithoutChar(text, k + 1)
            /\ e_op' = "delete_backward" =>
                  /\ ~editor'.panicked
                  /\ IF cursor = 0
                     THEN text2 = text /\ editor'.cursor_index = 0
                     ELSE /\ text2 = WithoutChar(text, k)
                          /\ editor'.cursor_index = cursor - len_utf8(text[k])
      ]_vars

\* C29 witness: a wide character was typed between two others.
C29_Witness ==
    /\ e_op = "input_char"
    /\ e_ch = WIDE
    /\ editor.content.content = <<"a", WIDE, "a">>
    /\ editor.cursor_index = 4

\* ---- C30 ----
\* A command of the history matches the Base words exactly when word
\* splitting succeeds on it and its first n tokens are the n Base words in
\* order (so never with fewer than n tokens or an unclosed quote), and
\* load_history_for_command takes values from matching commands only, every
\* one of them, newest first.
C30_MatchIsTokenPrefix ==
    /\ h_pc \in {"matched", "loaded"} =>
          \A k \in DOMAIN h_lines :
              LET split == ShlexSplit(h_lines[k])
                  n == Len(h_base)
              IN  h_matches[k] <=>
                     /\ split.ok
                     /\ Len(split.words) >= n
                     /\ SubSeq(split.words, 1, n) = h_base
    /\ h_pc = "loaded" =>
          /\ \A j \in DOMAIN h_scanned : h_matches[h_scanned[j]]
          /\ \A k \in DOMAIN h_lines :
                h_matches[k] => \E j \in DOMAIN h_scanned : h_scanned[j] = k
          /\ \A i, j \in DOMAIN h_scanned : i < j => h_scanned[i] > h_scanned[j]

\* C30 witness: of two commands the one whose quoted first word equals the
\* Base word matches and is scanned, the one with too few tokens is not.
C30_Witness ==
    /\ h_pc = "loaded"
    /\ h_base = <<WordA, WordB>>
    /\ h_lines = << <<SQ, "a", SQ, SP, "b">>, WordA >>
    /\ h_matches = <<TRUE, FALSE>>
    /\ h_scanned = <<1>>

\* ---- C31 ----
\* The components of the k-th command of the history, none if it does not
\* parse.
ComponentsOf(k) ==
    LET parsed == parse_command(h_lines[k])
    IN  IF parsed.ok THEN parsed.components ELSE <<>>

\* The values that stand as the Value directly after the Flag flag in a
\* scanned command.
AdjacentValues(flag) ==
    UNION { { ComponentsOf(h_scanned[j])[k + 1].text :
                k \in { i \in 1..(Len(ComponentsOf(h_scanned[j])) - 1) :
                          /\ ComponentsOf(h_scanned[j])[i] = Flag(flag)
                          /\ ComponentsOf(h_scanned[j])[i + 1].kind = "Value" } } :
            j \in DOMAIN h_scanned }

\* The texts of the Flags of the scanned commands.
ScannedFlags ==
    UNION { { ComponentsOf(h_scanned[j])[k].text :
                k \in { i \in DOMAIN ComponentsOf(h_scanned[j]) :
                          ComponentsOf(h_scanned[j])[i].kind = "Flag" } } :
            j \in DOMAIN h_scanned }

C32_HistoryFailureGivesEmptyMap ==
    (h_pc \in {"loaded", "reading"} /\ h_source # "ok") =>
        /\ h_result = "ok"
        /\ h_values = NoValues

\* ---- C33 ----
\* The selection of a is None if the Document is empty and an index of the
\* Document otherwise.
SelectionValid(a) ==
    IF Len(a.cmd) = 0 THEN a.selected = None
    ELSE a.selected # None /\ a.selected < Len(a.cmd)

\* After any sequence of key events the selection is None exactly when the
\* Document is empty and is otherwise an index below the count.
C33_SelectionMatchesDocument ==
    pc = "running" => SelectionValid(app)

\* The position of a popped action is one the arm that uses it may touch:
\* an index below the count where a component is removed or replaced, at
\* most the count where a component is inserted again.
PositionValid(a, action, reinserts) ==
    IF reinserts THEN action.position <= Len(a.cmd)
    ELSE action.position < Len(a.cmd)

\* C34: the position stored in the action that undo or redo pops is valid
\* for the Document of that moment (below the count for the arms that remove
\* or replace, at most the count for the arms that insert again), so no undo
\* and no redo indexes the Document out of bounds.
C34_UndoRedoPositionsValid ==
    [][ /\ (last_key' = "undo" /\ app.undo.undo_stack # <<>>) =>
            /\ PositionValid(app, Last(app.undo.undo_stack),
                             Last(app.undo.undo_stack).type = "Delete")
            /\ ~app'.panicked
        /\ (last_key' = "redo" /\ app.undo.redo_stack # <<>>) =>
            /\ PositionValid(app, Last(app.undo.redo_stack),
                             Last(app.undo.redo_stack).type = "Insert")
            /\ ~app'.panicked
      ]_vars

\* C34 witness: a redo has inserted a component again at the end of the
\* Document, the one position that equals the count before the insertion.
C34_Witness ==
    /\ last_key = "redo"
    /\ pc = "running"
    /\ app.undo.undo_stack # <<>>
    /\ Last(app.undo.undo_stack).type = "Insert"
    /\ Last(app.undo.undo_stack).position = Len(app.cmd) - 1
    /\ Len(app.cmd) >= 2

\* C35: select_next_component and select_previous_component always complete
\* and leave the selection in range: with components they step and wrap
\* around, on an empty Document they leave the selection None; neither
\* changes the Document or the two stacks.
C35_SelectionMovesInRange ==
    [][ (last_key' \in {"next", "previous"}) =>
            LET count == Len(app.cmd)
                i == IF app.selected = None THEN 0 ELSE app.selected
            IN  /\ ~app'.panicked
                /\ app'.cmd = app.cmd
                /\ app'.undo = app.undo
                /\ count = 0 => app'.selected = None
                /\ (count >= 1 /\ last_key' = "next") =>
                      app'.selected = (IF i >= count - 1 THEN 0 ELSE i + 1)
                /\ (count >= 1 /\ last_key' = "previous") =>
                      app'.selected = (IF i = 0 THEN count - 1 ELSE i - 1)
      ]_vars

\* &text[start..end] for two character boundaries start <= end.
StrSlice(text, start, end) ==
    SubSeq(text, CharsBefore(text, start) + 1, CharsBefore(text, end))

\* The character that starts at the character boundary index < len.
CharAt(text, index) == text[CharsBefore(text, index) + 1]

\* The line table lines is consistent with text.
TableConsistent(text, lines) ==
    /\ lines # <<>>
    /\ lines[1].start_index = 0
    /\ \A k \in DOMAIN lines :
          /\ lines[k].start_index <= lines[k].end_index
          /\ lines[k].end_index <= ByteLen(text)
          /\ is_char_boundary(text, lines[k].start_index)
          /\ is_char_boundary(text, lines[k].end_index)
          /\ lines[k].content =
                StrSlice(text, lines[k].start_index, lines[k].end_index)
    /\ \A k \in 1..(Len(lines) - 1) :
          \/ lines[k + 1].start_index = lines[k].end_index
          \/ /\ lines[k + 1].start_index = lines[k].end_index + 1
             /\ CharAt(text, lines[k].end_index) = NL
    /\ LET last == lines[Len(lines)].end_index
       IN  \/ last = ByteLen(text)
           \/ /\ last + 1 = ByteLen(text)
              /\ CharAt(text, last) = NL

\* C36: for every text and width the line table is consistent with the
\* text: a line's content is text[start..end], starts and ends are character
\* boundaries, the first line starts at 0, each following line starts at the
\* end of the line before it or one byte (a consumed newline) after it, and
\* the lines with the consumed newlines cover the text up to its length.
C36_LineTableConsistent ==
    w_pc # "input" => TableConsistent(w_content, w_text.lines)

\* C36 witness: a table with a soft-wrapped line, a line after a consumed
\* newline and a line that holds a multi-byte character.
C36_Witness ==
    /\ w_pc = "wrapped"
    /\ \E k \in 1..(Len(w_text.lines) - 1) :
          /\ w_text.lines[k + 1].start_index = w_text.lines[k].end_index
          /\ w_text.lines[k].content # <<>>
    /\ \E k \in 1..(Len(w_text.lines) - 1) :
          w_text.lines[k + 1].start_index = w_text.lines[k].end_index + 1
    /\ \E k \in DOMAIN w_text.lines :
          ByteLen(w_text.lines[k].content) > Len(w_text.lines[k].content)

\* C37: in input mode a character key (whatever the character: it is pushed
\* to the scratch buffer and never read as a command), Backspace and Esc
\* leave the Document, the selection and the two stacks as they were and
\* raise no error.
C37_InputKeysOnlyTouchBuffer ==
    [][ (app.input_mode /\ last_key' \in {"char", "backspace", "cancel_input"}) =>
            /\ app'.cmd = app.cmd
            /\ app'.selected = app.selected
            /\ app'.undo = app.undo
            /\ ~app'.panicked
            /\ pc' = "running"
      ]_vars

\* C37 witness: the character u, the undo key of normal mode, was typed
\* into the scratch buffer of an App that has an action to undo.
C37_Witness ==
    /\ last_key = "char"
    /\ app.input_mode
    /\ app.current_input # <<>>
    /\ Last(app.current_input) = "u"
    /\ app.undo.undo_stack # <<>>
    /\ app.cmd[app.selected + 1] # app.current_input

\* C38: execute (Ctrl+X, Ctrl+Enter) during an edit session returns the
\* serialization of the Document as it was when the session started: the
\* scratch buffer is not written into the selected component and no action
\* is recorded for it.
C38_ExecuteDropsScratchBuffer ==
    [][ last_key' = "input_execute" =>
            /\ app'.cmd = edit_start.snap.cmd
            /\ app'.undo = edit_start.snap.undo
            /\ stdout' # NoOutput =>
                  stdout' = to_shell_string(edit_start.snap.cmd)
            /\ exit_code' = ExitSuccess => stdout' # NoOutput
      ]_vars

\* C38 witness: a command was printed by execute while the scratch buffer
\* held a typed value that differs from the selected component.
C38_Witness ==
    /\ last_key = "input_execute"
    /\ stdout # NoOutput
    /\ app.input_mode
    /\ app.current_input # <<>>
    /\ app.cmd[app.selected + 1] # app.current_input
    /\ app.undo.undo_stack # <<>>

\* C39: after any sequence of WrapText operations the stored line table is
\* wrap_text of the current content and width, and so has at least one
\* line, also after clear() and after an edit session has ended.
C39_LineTableUpToDate ==
    ~editor.panicked =>
        /\ editor.content.lines =
              wrap_text(editor.content.content, editor.content.width)
        /\ Len(editor.content.lines) >= 1

\* C40: move_cursor_up with the cursor on row 0 completes without underflow
\* or abort and leaves the cursor on row 0, at a character boundary.
C40_UpOnFirstRowStays ==
    [][ (e_op' = "move_cursor_up" /\ e_pc = "running"
         /\ ~position_checked(editor.content, editor.cursor_index).panicked
         /\ cursor_position(editor)[2] = 0) =>
            /\ ~editor'.panicked
            /\ cursor_position(editor')[2] = 0
            /\ is_char_boundary(editor'.content.content, editor'.cursor_index)
      ]_vars

=============================================================================
